---- MODULE Spec2Model ----
(***************************************************************************)
(* A model of the dps training core:                                       *)
(*   - RLContext.get_signal, the memoized signal cache (dps/rl/base.py)    *)
(*   - RLContext.__enter__/__exit__/update, the active-context slot and    *)
(*     the on-policy / off-policy update schedule (dps/rl/base.py)         *)
(*   - TrainingLoop._run_core/_run_stage, the curriculum loop with early   *)
(*     stopping, checkpoints, time limit and user interrupt (dps/train.py) *)
(* Each part has its own specification (SpecSignal, SpecCtx, SpecTrain);   *)
(* the variables of the other parts stay at their initial values.          *)
(***************************************************************************)
EXTENDS Integers, Sequences, FiniteSets, TLC

\* Python's None, where an object (context, generator) is expected
None == "None"
\* Python's None, where a tensor is expected (tensors are numbered from 1)
NoTensor == 0

(***************************************************************************)
(* Bounds of the model.                                                    *)
(***************************************************************************)
\* number of get_signal requests explored
MaxRequests == 3
\* number of RLContext.update calls explored
MaxUpdates == 2
\* largest configured replay_updates_per_sample explored
MaxReplayUpdates == 2
\* rollout batches the replay buffer needs before get_batch yields a batch
MinEntries == 2
\* evaluate calls explored
MaxEvals == 1
\* RLObjects instantiated
MaxObjects == 3
\* learners of an RLUpdater
MaxLearners == 2
\* _update and _evaluate calls explored
MaxCalls == 1
\* largest cfg.n_val_rollouts and largest evaluation batch size explored
MaxValRollouts == 3
MaxValBatch == 2
\* registers of a RegisterSpec, and the largest width of one register
MaxRegisters == 2
MaxWidth == 2
\* PatchesBuilder: max_attempts is 0..MaxAttempts, the draw area is up to
\* MaxDraw wide, patches are up to MaxPatchWidth wide, _sample_patches gives
\* up to MaxPatches patches, max_overlap is None or 0..MaxOverlap
MaxAttempts == 2
MaxDraw == 2
MaxPatchWidth == 2
MaxPatches == 2
MaxOverlap == 1
\* the values a learner's evaluate records range over 0..MaxMetric
MaxMetric == 1
\* EarlyStopHook.check calls made on one hook
MaxChecks == 4
\* names asked for in one get_register_values call
MaxNames == 2
\* digits are 0..MaxDigit (cfg.base is MaxDigit + 1)
MaxDigit == 2
\* build_step calls of one rollout
GridSteps == 2
\* stages of the curriculum
NStages == 2
\* validation losses range over 0..MaxLoss
MaxLoss == 2
\* cfg.patience ranges over 0..MaxPatience
MaxPatience == 1
\* cfg.threshold
Threshold == 1
\* cfg.n_train, cfg.batch_size, cfg.max_steps
NTrain == 2
BatchSize == 1
MaxSteps == 3
\* cfg.eval_step, cfg.display_step, cfg.checkpoint_step
EvalStep == 2
DisplayStep == 3
CheckpointStep == 2

VARIABLES
    \* ---- RLContext.get_signal (one context) ----
    signals,        \* RLContext._signals: cache key -> tensor (or None)
    gen_calls,      \* how often memoized requests ran generate_signal, per
                    \* (generator, key, kwargs) combination
    gen_built,      \* how often these runs returned a tensor, per combination
    next_tensor,    \* identity of the next tensor object to be constructed
    sig_ret,        \* what the last get_signal request did and returned
    n_requests,     \* get_signal requests made so far
    \* ---- RLContext.__enter__/__exit__/update ----
    active_context, \* RLContext.active_context (class attribute)
    open_blocks,    \* contexts whose `with` body is executing, innermost last
    mu,             \* per context: behaviour policy set (self.mu is not None)
    optimizer,      \* per context: optimizer set
    replay_buffer,  \* per context: whether a replay buffer is set (is not
                    \* None), and the rollout batches it holds
    on_policy_updates,          \* Param on_policy_updates
    replay_updates_per_sample,  \* Param replay_updates_per_sample
    upc,            \* position inside RLContext.update ("idle" outside)
    ucur,           \* the context whose update is running
    rollouts,       \* the rollout batch collected by the running update
    loop_i,         \* loop variable i of the off-policy loop
    trace,          \* events of the current (or last) update call, in order
    n_updates,      \* update calls begun so far (also names rollout batches)
    last_op,        \* the last operation attempted and its outcome
    pi,             \* per context: whether the attribute self.pi exists
                    \* (set_validation_policy has been called)
    etrace,         \* events of the current (or last) evaluate call, in order
    n_evals,        \* evaluate calls begun so far
    \* ---- RLObject.__new__ / RLContext.add_rl_object ----
    rl_objects,     \* per context: self.rl_objects
    objective_fn_terms, \* per context: self.objective_fn_terms
    agents,         \* per context: self.agents
    created,        \* the RLObjects instantiated so far, in order, each
                    \* with its class and the context active at the time
    \* ---- RLUpdater ----
    learners,       \* self.learners: for each learner its name, the keys of
                    \* the values it records, whether it has a replay buffer
    ustate,         \* "none", "constructed", or the error of the constructor
    umessage,       \* the names the constructor's error message lists
    graph_built,    \* build_graph has run
    uwrites,        \* the writes of the last _update or _evaluate call into
                    \* the merged records, in order
    ucalls,         \* learner.update / learner.evaluate calls of that call
    ureturn,        \* the merged records that call returned
    n_ucalls,       \* _update and _evaluate calls made so far
    \* ---- TrainingLoop (dps/train.py) ----
    tpc,            \* position inside TrainingLoop._run_core/_run_stage
    power_through,  \* cfg.power_through
    patience,       \* cfg.patience (EarlyStopHook.patience)
    stage,          \* stage (_run_core)
    global_step,    \* self.global_step
    threshold_reached,  \* threshold_reached (_run_core)
    reason,         \* reason (_run_core)
    best_path,      \* self.best_path; << >> while the attribute is not set
    cur_next,       \* stages the curriculum has yielded so far
    n_experiences,  \* updater.n_experiences of the current stage's updater
    params,         \* the parameter values of the current stage's updater
    loaded,         \* the checkpoint the current updater was built from
    disk,           \* checkpoint files: path -> saved parameter values
    local_step,     \* local_step (_run_stage)
    val_loss,       \* val_loss (_run_stage)
    new_best,       \* new_best (_run_stage)
    stop,           \* stop (_run_stage)
    es,             \* the EarlyStopHook of the curriculum
    history,        \* EarlyStopHook._history
    remaining,      \* self.time_remaining: 2 is more than 1 second, 1 is at
                    \* most 1 second, 0 is none
    ran_out,        \* limiter.ran_out
    error,          \* the exception that left TrainingLoop.run, if any
    result,         \* the history returned by TrainingLoop.run
    ended,          \* per finished stage: how it ended
    exp_at,         \* where the run was when the time budget expired
    \* ---- RegisterSpec.as_obs / from_obs ----
    rspec,          \* the RegisterSpec: widths and visible flags
    registers,      \* the bank b: per register, its columns
    kind,           \* whether the bank holds ndarrays or Tensors
    visible_only,   \* the visible_only argument of the as_obs call
    obs,            \* as_obs(b)
    unpacked,       \* from_obs(as_obs(b))
    obs2,           \* as_obs(from_obs(as_obs(b)))
    rpc,            \* which of the calls have been made
    \* ---- GridArithmetic.build_step ----
    grid_env,       \* the environment: its class and its Params
    input_ph,       \* the input the glimpses are taken from
    grid_r,         \* r, the registers
    grid_prev,      \* the registers before the last build_step
    grid_a,         \* a, the action of the last build_step
    grid_t,         \* t, the number of build_step calls so far
    \* ---- RegisterSpec.get_register_values ----
    lk_registers,   \* registers, the bank that is searched
    lk_names,       \* names, the registers asked for
    lk_result,      \* what the call returned or raised
    lk_pc,          \* whether the call has been made
    \* ---- PatchesBuilder: placing the patches of one image ----
    pb,             \* the builder: its Params and what _sample_patches gives
    p_pc,           \* where _make is for the image
    n_rects,        \* the number of patches to place
    p_i,            \* i of _sample_patch_locations
    rects,          \* the locations found
    p_error,        \* the exception raised, if any
    \* ---- EarlyStopHook.check on its own ----
    losses,         \* the validation losses passed to check so far
    \* ---- two get_signal requests and the cache keys built for them ----
    kq1,            \* the first request: generator, key, kwargs
    kq2,            \* the second request
    kk1,            \* the cache key of the first request
    kk2,            \* the cache key of the second request
    kpc,            \* "first", "second" or "done"
    \* ---- one call of RLUpdater._evaluate ----
    ev_cfg,         \* cfg.n_val_rollouts, batch_size and the number of learners
    ev_it,          \* the loop variable `it`
    ev_record,      \* record: key -> accumulated value
    ev_calls,       \* the learner.evaluate calls made, with what they returned
    ev_pc,          \* "loop" or "done"
    ev_result       \* the record returned: key -> (numerator, denominator)

sigvars == <<signals, gen_calls, gen_built, next_tensor, sig_ret, n_requests>>
evalvars == <<pi, etrace, n_evals>>
regvars == <<rl_objects, objective_fn_terms, agents, created>>
ctxvars == <<active_context, open_blocks, mu, optimizer, replay_buffer,
             on_policy_updates, replay_updates_per_sample, upc, ucur, rollouts,
             loop_i, trace, n_updates, last_op, evalvars, regvars>>
trainvars == <<tpc, power_through, patience, stage, global_step,
               threshold_reached, reason, best_path, cur_next, n_experiences,
               params, loaded, disk, local_step, val_loss, new_best, stop, es,
               history, remaining, ran_out, error, result, ended, exp_at>>
updvars == <<learners, ustate, umessage, graph_built, uwrites, ucalls, ureturn,
            n_ucalls>>
bankvars == <<rspec, registers, kind, visible_only, obs, unpacked, obs2, rpc>>
gridvars == <<grid_env, input_ph, grid_r, grid_prev, grid_a, grid_t>>
lookupvars == <<lk_registers, lk_names, lk_result, lk_pc>>
patchvars == <<pb, p_pc, n_rects, p_i, rects, p_error>>
hookvars == <<losses>>
keyvars == <<kq1, kq2, kk1, kk2, kpc>>
meanvars == <<ev_cfg, ev_it, ev_record, ev_calls, ev_pc, ev_result>>
morevars == <<lookupvars, patchvars, hookvars, keyvars, meanvars>>
othervars == <<updvars, bankvars, gridvars, morevars>>
vars == <<sigvars, ctxvars, trainvars, othervars>>

(***************************************************************************)
(* Strings are modelled as sequences of tokens, so that formatting and     *)
(* joining are computed as the code computes them.                         *)
(***************************************************************************)
RECURSIVE Join(_, _)
\* sep.join(parts) for a sequence of token sequences
Join(parts, sep) ==
    IF parts = <<>> THEN <<>>
    ELSE IF Len(parts) = 1 THEN parts[1]
    ELSE parts[1] \o <<sep>> \o Join(Tail(parts), sep)

\* generators: g1, g2 build tensors; g0 is a plain RLObject whose
\* generate_signal is the base-class `pass` and so returns None
Generators == {"g1", "g2", "g0"}
SignalKeys == {<<"adv">>, <<"val">>}
\* names of the core signals build_core_signals stores in _signals
CoreSignals == {<<"mask">>, <<"obs">>}
KwNames == <<"a", "b">>
\* keyword arguments as written at the call site: (name, value) pairs
KwargsSet == {<< >>, << <<"a", 1>> >>, << <<"a", 2>> >>,
              << <<"a", 1>>, <<"b", 1>> >>, << <<"b", 1>>, <<"a", 1>> >>}

\* kwargs[k], and kwargs as the dict Python builds from the call
KwValue(kw, n) == kw[CHOOSE i \in DOMAIN kw : kw[i][1] = n][2]
KwAsDict(kw) == {<<kw[i][1], kw[i][2]>> : i \in DOMAIN kw}

\* sorted(kwargs): the names in increasing order
SortedNames(kw) == SelectSeq(KwNames, LAMBDA n : n \in {kw[i][1] : i \in DOMAIN kw})

\* str(x) of the values used here
Str(x) == CASE x = 1 -> "1" [] x = 2 -> "2" [] OTHER -> "?"

\* str(hash(generator)): distinct live objects have distinct default hashes
GenKey(g) == CASE g = "g1" -> "h1" [] g = "g2" -> "h2" [] OTHER -> "h0"

\* "{}={}".format(k, kwargs[k])
FormatKw(kw, n) == <<n, "=", Str(KwValue(kw, n))>>

\* key = [gen_key, signal_key] and the formatted kwargs, '|'.join(key)
JoinKey(gen_key, signal_key, formatted) ==
    Join(<< <<gen_key>>, signal_key >> \o formatted, "|")

\* the cache key get_signal builds for a generated signal
CacheKey(g, key, kw) ==
    LET names == SortedNames(kw)
    IN  JoinKey(GenKey(g), key, [i \in 1..Len(names) |-> FormatKw(kw, names[i])])

\* generator.generate_signal(signal_key, self, **kwargs): a newly built
\* tensor, or None from the base class RLObject
generate_signal(g, t) == IF g = "g0" THEN NoTensor ELSE t

\* self._signals.get(key, None)
CacheGet(cache, k) == IF k \in DOMAIN cache THEN cache[k] ELSE NoTensor

\* the variant of CacheStore that forgets to store
CacheStoreDropped(cache, k, v) == cache

\* self._signals[key] = signal
CacheStore(cache, k, v) ==
    [x \in DOMAIN cache \cup {k} |-> IF x = k THEN v ELSE cache[x]]

Combo(g, key, kw) == <<g, key, KwAsDict(kw)>>
Combos == {Combo(g, key, kw) : g \in Generators, key \in SignalKeys, kw \in KwargsSet}

Bump(f, c) == [f EXCEPT ![c] = @ + 1]

\* len(signal.shape) of the tensor stored or built under a signal key
Rank(key) == IF key = <<"val">> THEN 1 ELSE 3

\* lines 301-308: `signal *= mask` builds a new tensor when the signal is
\* maskable and masked is set; MaskNew tells whether it does
MaskNew(key, masked) == masked /\ Rank(key) >= 2

\* lines 310-311: tf.stop_gradient(signal) builds a new tensor unless
\* gradient is set
StopGradientNew(gradient) == ~gradient

\* the tensor get_signal returns for signal, with t the next tensor
\* identity, and the next identity afterwards
Returned(signal, key, masked, gradient, t) ==
    LET s1 == IF MaskNew(key, masked) THEN t ELSE signal
        t1 == IF MaskNew(key, masked) THEN t + 1 ELSE t
    IN  IF StopGradientNew(gradient) THEN t1 ELSE s1
TensorsBuilt(key, masked, gradient) ==
    (IF MaskNew(key, masked) THEN 1 ELSE 0) + (IF StopGradientNew(gradient) THEN 1 ELSE 0)

\* RLContext.get_signal(key, generator, gradient=..., masked=...,
\* memoize=..., **kwargs)
get_signal(g, key, kw, gradient, masked, memoize) ==
    /\ n_requests < MaxRequests
    /\ n_requests' = n_requests + 1
    /\ IF g = None
       THEN \* signal = self._signals[key]
            LET found == key \in DOMAIN signals
                signal == CacheGet(signals, key)
            IN  /\ UNCHANGED <<signals, gen_calls, gen_built>>
                /\ next_tensor' = IF found
                                  THEN next_tensor + TensorsBuilt(key, masked, gradient)
                                  ELSE next_tensor
                /\ sig_ret' = [combo |-> <<None, key, {}>>, memoize |-> memoize,
                               gradient |-> gradient, masked |-> masked,
                               generated |-> FALSE,
                               raised |-> IF found THEN "no" ELSE "KeyError",
                               signal |-> signal,
                               returned |-> IF found
                                            THEN Returned(signal, key, masked,
                                                          gradient, next_tensor)
                                            ELSE NoTensor]
       ELSE LET k == CacheKey(g, key, kw)
                cached == IF memoize THEN CacheGet(signals, k) ELSE NoTensor
                build == cached = NoTensor
                built == generate_signal(g, next_tensor)
                signal == IF build THEN built ELSE cached
                t == IF build /\ built # NoTensor
                     THEN next_tensor + 1 ELSE next_tensor
                ret == IF signal = NoTensor THEN NoTensor
                       ELSE Returned(signal, key, masked, gradient, t)
            IN  /\ signals' = IF memoize /\ build
                              THEN CacheStore(signals, k, signal) ELSE signals
                /\ gen_calls' = IF memoize /\ build
                                THEN Bump(gen_calls, Combo(g, key, kw))
                                ELSE gen_calls
                /\ gen_built' = IF memoize /\ build /\ built # NoTensor
                                THEN Bump(gen_built, Combo(g, key, kw))
                                ELSE gen_built
                /\ next_tensor' = IF signal = NoTensor THEN t
                                  ELSE t + TensorsBuilt(key, masked, gradient)
                \* len(signal.shape) on None raises AttributeError
                /\ sig_ret' = [combo |-> Combo(g, key, kw), memoize |-> memoize,
                               gradient |-> gradient, masked |-> masked,
                               generated |-> build,
                               raised |-> IF signal = NoTensor
                                          THEN "AttributeError" ELSE "no",
                               signal |-> signal,
                               returned |-> ret]

\* a memoized request for a generated signal
GetSignalMemoized ==
    \E g \in Generators, key \in SignalKeys, kw \in KwargsSet :
        /\ get_signal(g, key, kw, FALSE, TRUE, TRUE)
        /\ UNCHANGED <<ctxvars, trainvars, othervars>>

\* a request with memoize=False
GetSignalFresh ==
    \E g \in Generators, key \in SignalKeys, kw \in KwargsSet :
        /\ get_signal(g, key, kw, FALSE, TRUE, FALSE)
        /\ UNCHANGED <<ctxvars, trainvars, othervars>>

\* a memoized request that sets gradient or masked
GetSignalOptions ==
    \E key \in SignalKeys, gradient \in BOOLEAN, masked \in BOOLEAN :
        /\ gradient \/ ~masked
        /\ get_signal("g1", key, << >>, gradient, masked, TRUE)
        /\ UNCHANGED <<ctxvars, trainvars, othervars>>

\* a request for a core signal (generator=None)
GetSignalCore ==
    \E key \in CoreSignals \cup SignalKeys :
        /\ get_signal(None, key, << >>, FALSE, TRUE, TRUE)
        /\ UNCHANGED <<ctxvars, trainvars, othervars>>

SigInit ==
    /\ signals = [k \in CoreSignals |-> 100]
    /\ gen_calls = [c \in Combos |-> 0]
    /\ gen_built = [c \in Combos |-> 0]
    /\ next_tensor = 1
    /\ sig_ret = [combo |-> <<None, <<"mask">>, {}>>, memoize |-> TRUE,
                  gradient |-> FALSE, masked |-> TRUE,
                  generated |-> FALSE, raised |-> "no", signal |-> NoTensor,
                  returned |-> NoTensor]
    /\ n_requests = 0

\* RLContext.__init__: rl_objects, objective_fn_terms and agents are empty
RegInit ==
    /\ rl_objects = [c \in {"A", "B"} |-> << >>]
    /\ objective_fn_terms = [c \in {"A", "B"} |-> << >>]
    /\ agents = [c \in {"A", "B"} |-> << >>]
    /\ created = << >>

CtxIdle ==
    /\ active_context = None
    /\ open_blocks = << >>
    /\ mu = [c \in {"A", "B"} |-> FALSE]
    /\ optimizer = [c \in {"A", "B"} |-> FALSE]
    /\ replay_buffer = [c \in {"A", "B"} |-> [present |-> FALSE, held |-> {}]]
    /\ on_policy_updates = TRUE
    /\ replay_updates_per_sample = 1
    /\ upc = "idle"
    /\ ucur = None
    /\ rollouts = 0
    /\ loop_i = 0
    /\ trace = << >>
    /\ n_updates = 0
    /\ last_op = [op |-> "none", ctx |-> None, result |-> "ok", names |-> "none"]
    /\ pi = [c \in {"A", "B"} |-> FALSE]
    /\ etrace = << >>
    /\ n_evals = 0
    /\ RegInit


(***************************************************************************)
(* RLContext: the active-context slot and update (dps/rl/base.py)          *)
(***************************************************************************)
Contexts == {"A", "B"}

\* rollout batches collected by evaluate are numbered from here, apart from
\* those of update
EvalBatch == 100

\* the variant of EnterRaises without the guard
EnterNeverRaises(ac) == FALSE

\* __enter__: `if RLContext.active_context is not None: raise`
EnterRaises(ac) == ac # None

\* __enter__ when it does not raise: RLContext.active_context = self
Enter(c) ==
    /\ active_context' = c
    /\ open_blocks' = Append(open_blocks, c)

\* the variant of Exit that leaves the slot as it is
ExitKeepsActive ==
    /\ active_context' = active_context
    /\ open_blocks' = SubSeq(open_blocks, 1, Len(open_blocks) - 1)

\* __exit__: RLContext.active_context = None; the innermost block ends
Exit ==
    /\ active_context' = None
    /\ open_blocks' = SubSeq(open_blocks, 1, Len(open_blocks) - 1)

\* the contexts are configured before their first update or evaluate call
Configuring == upc = "idle" /\ n_updates = 0 /\ n_evals = 0

Op(op, c, res) == [op |-> op, ctx |-> c, result |-> res, names |-> "none"]
\* an operation that raised, with the setter its message names
OpErr(op, c, res, setter) == [op |-> op, ctx |-> c, result |-> res, names |-> setter]

set_behaviour_policy(c) ==
    /\ Configuring /\ ~mu[c]
    /\ mu' = [mu EXCEPT ![c] = TRUE]
    /\ UNCHANGED <<active_context, open_blocks, optimizer, replay_buffer,
                   on_policy_updates, replay_updates_per_sample, upc, ucur,
                   rollouts, loop_i, trace, n_updates, last_op, evalvars,
                   regvars, sigvars, trainvars, othervars>>

set_optimizer(c) ==
    /\ Configuring /\ ~optimizer[c]
    /\ optimizer' = [optimizer EXCEPT ![c] = TRUE]
    /\ UNCHANGED <<active_context, open_blocks, mu, replay_buffer,
                   on_policy_updates, replay_updates_per_sample, upc, ucur,
                   rollouts, loop_i, trace, n_updates, last_op, evalvars,
                   regvars, sigvars, trainvars, othervars>>

set_replay_buffer(c) ==
    /\ Configuring /\ ~replay_buffer[c].present
    /\ replay_buffer' = [replay_buffer EXCEPT ![c] = [present |-> TRUE, held |-> {}]]
    /\ UNCHANGED <<active_context, open_blocks, mu, optimizer,
                   on_policy_updates, replay_updates_per_sample, upc, ucur,
                   rollouts, loop_i, trace, n_updates, last_op, evalvars,
                   regvars, sigvars, trainvars, othervars>>

\* a `with context:` block is entered (rl_render_hook, build_graph)
WithEnter(c) ==
    /\ upc = "idle"
    /\ IF EnterRaises(active_context)
       THEN /\ last_op' = Op("enter", c, "raised")
            /\ UNCHANGED <<active_context, open_blocks>>
       ELSE /\ Enter(c)
            /\ last_op' = Op("enter", c, "entered")
    /\ UNCHANGED <<mu, optimizer, replay_buffer, on_policy_updates,
                   replay_updates_per_sample, upc, ucur, rollouts, loop_i,
                   trace, n_updates, evalvars,
                   regvars, sigvars, trainvars, othervars>>

\* the innermost `with context:` block is left
WithExit ==
    /\ upc = "idle" /\ open_blocks # << >>
    /\ Exit
    /\ last_op' = Op("exit", open_blocks[Len(open_blocks)], "exited")
    /\ UNCHANGED <<mu, optimizer, replay_buffer, on_policy_updates,
                   replay_updates_per_sample, upc, ucur, rollouts, loop_i,
                   trace, n_updates, evalvars,
                   regvars, sigvars, trainvars, othervars>>

Event(ev, mode, batch) ==
    [ev |-> ev, mode |-> mode, batch |-> batch,
     held |-> IF ucur \in Contexts THEN replay_buffer[ucur].held ELSE {}]

\* the variant of DoUpdate that ignores on_policy_updates
DoUpdateAlways(c) == TRUE

\* do_update = self.replay_buffer is None or self.on_policy_updates
DoUpdate(c) == ~replay_buffer[c].present \/ on_policy_updates

\* _run_and_record: the hooks of every rl_object around either
\* optimizer.update or a plain evaluation of the recorded values
RunAndRecord(batch, mode, do_update) ==
    IF do_update
    THEN <<Event("pre_update", mode, batch), Event("optimizer.update", mode, batch),
           Event("post_update", mode, batch)>>
    ELSE <<Event("pre_eval", mode, batch), Event("sess.run", mode, batch),
           Event("post_eval", mode, batch)>>

\* the variant of AfterOnPolicy that samples without adding the rollouts
AfterOnPolicySkipAdd(c) == IF replay_buffer[c].present THEN "loop" ELSE "return"

\* `if self.replay_buffer is not None:` after the on-policy step
AfterOnPolicy(c) == IF replay_buffer[c].present THEN "add_rollouts" ELSE "return"

\* replay_buffer.get_batch(update_batch_size): the batches it may yield;
\* 0 stands for (None, None), which it yields when it holds too few entries
GetBatch(c) ==
    IF Cardinality(replay_buffer[c].held) < MinEntries THEN {0}
    ELSE replay_buffer[c].held \cup {0}

\* update(batch_size) is called: the two asserts, then `with self:`
UpdateCall(c) ==
    /\ upc = "idle" /\ n_updates < MaxUpdates
    /\ IF ~mu[c]
       THEN /\ last_op' = OpErr("update", c, "AssertionError", "set_behaviour_policy")
            /\ UNCHANGED <<active_context, open_blocks, upc, ucur, trace, n_updates>>
       ELSE IF ~optimizer[c]
       THEN /\ last_op' = OpErr("update", c, "AssertionError", "set_optimizer")
            /\ UNCHANGED <<active_context, open_blocks, upc, ucur, trace, n_updates>>
       ELSE IF EnterRaises(active_context)
       THEN /\ last_op' = Op("update", c, "raised")
            /\ UNCHANGED <<active_context, open_blocks, upc, ucur, trace, n_updates>>
       ELSE /\ Enter(c)
            /\ last_op' = Op("update", c, "entered")
            /\ upc' = "do_rollouts"
            /\ ucur' = c
            /\ trace' = << >>
            /\ n_updates' = n_updates + 1
    /\ UNCHANGED <<mu, optimizer, replay_buffer, on_policy_updates,
                   replay_updates_per_sample, rollouts, loop_i, evalvars,
                   regvars, sigvars, trainvars, othervars>>

\* rollouts = self.env.do_rollouts(self.mu, ...)
DoRollouts ==
    /\ upc = "do_rollouts"
    /\ rollouts' = n_updates
    /\ trace' = Append(trace, Event("do_rollouts", "train", n_updates))
    /\ upc' = "on_policy"
    /\ UNCHANGED <<active_context, open_blocks, mu, optimizer, replay_buffer,
                   on_policy_updates, replay_updates_per_sample, ucur, loop_i,
                   n_updates, last_op, evalvars,
                   regvars, sigvars, trainvars, othervars>>

\* train_record = self._run_and_record(rollouts, 'train', None, do_update)
OnPolicy ==
    /\ upc = "on_policy"
    /\ trace' = trace \o RunAndRecord(rollouts, "train", DoUpdate(ucur))
    /\ upc' = AfterOnPolicy(ucur)
    /\ UNCHANGED <<active_context, open_blocks, mu, optimizer, replay_buffer,
                   on_policy_updates, replay_updates_per_sample, ucur, rollouts,
                   loop_i, n_updates, last_op, evalvars,
                   regvars, sigvars, trainvars, othervars>>

\* self.replay_buffer.add_rollouts(rollouts)
AddRollouts ==
    /\ upc = "add_rollouts"
    /\ replay_buffer' = [replay_buffer EXCEPT ![ucur].held = @ \cup {rollouts}]
    /\ trace' = Append(trace, Event("add_rollouts", "train", rollouts))
    /\ loop_i' = 0
    /\ upc' = "loop"
    /\ UNCHANGED <<active_context, open_blocks, mu, optimizer,
                   on_policy_updates, replay_updates_per_sample, ucur, rollouts,
                   n_updates, last_op, evalvars,
                   regvars, sigvars, trainvars, othervars>>

\* the variant of AfterGetBatch without the break
AfterGetBatchNoBreak(b) == "off_policy"

\* `if off_policy_rollouts is None: break`, else the off-policy update
AfterGetBatch(b) == IF b = 0 THEN "return" ELSE "off_policy"

\* one pass of `for i in range(self.replay_updates_per_sample)` up to the
\* break: get_batch, and `if off_policy_rollouts is None: break`
SampleBatch ==
    /\ upc = "loop" /\ loop_i < replay_updates_per_sample
    /\ \E b \in GetBatch(ucur) :
        /\ trace' = Append(trace, Event("get_batch", "off_policy", b))
        /\ upc' = AfterGetBatch(b)
        /\ UNCHANGED rollouts
        /\ loop_i' = IF b = 0 THEN loop_i ELSE loop_i + 1
    /\ UNCHANGED <<active_context, open_blocks, mu, optimizer, replay_buffer,
                   on_policy_updates, replay_updates_per_sample, ucur,
                   n_updates, last_op, evalvars,
                   regvars, sigvars, trainvars, othervars>>

\* the off-policy _run_and_record of the batch just sampled
OffPolicy ==
    /\ upc = "off_policy"
    /\ trace' = trace \o RunAndRecord(trace[Len(trace)].batch, "off_policy", TRUE)
    /\ upc' = "loop"
    /\ UNCHANGED <<active_context, open_blocks, mu, optimizer, replay_buffer,
                   on_policy_updates, replay_updates_per_sample, ucur, rollouts,
                   loop_i, n_updates, last_op, evalvars,
                   regvars, sigvars, trainvars, othervars>>

\* the for loop is exhausted
LoopEnd ==
    /\ upc = "loop" /\ loop_i >= replay_updates_per_sample
    /\ upc' = "return"
    /\ UNCHANGED <<active_context, open_blocks, mu, optimizer, replay_buffer,
                   on_policy_updates, replay_updates_per_sample, ucur, rollouts,
                   loop_i, trace, n_updates, last_op, evalvars,
                   regvars, sigvars, trainvars, othervars>>

\* `return train_record, off_policy_record` leaves the `with self:` block
UpdateReturn ==
    /\ upc = "return"
    /\ Exit
    /\ upc' = "idle"
    /\ last_op' = Op("update", ucur, "returned")
    /\ UNCHANGED <<mu, optimizer, replay_buffer, on_policy_updates,
                   replay_updates_per_sample, ucur, rollouts, loop_i, trace,
                   n_updates, evalvars,
                   regvars, sigvars, trainvars, othervars>>


(***************************************************************************)
(* RLContext.evaluate                                                      *)
(***************************************************************************)
\* what etrace keeps of an event: the call, its mode and its rollout batch
Called(e) == [ev |-> e.ev, mode |-> e.mode, batch |-> e.batch]

\* set_validation_policy(pi): self.pi = pi
set_validation_policy(c) ==
    /\ Configuring /\ ~pi[c]
    /\ pi' = [pi EXCEPT ![c] = TRUE]
    /\ UNCHANGED <<active_context, open_blocks, mu, optimizer, replay_buffer,
                   on_policy_updates, replay_updates_per_sample, upc, ucur,
                   rollouts, loop_i, trace, n_updates, last_op, etrace,
                   n_evals, regvars, sigvars, trainvars, othervars>>

\* `assert self.pi is not None, ...` (line 379): __init__ does not create
\* the attribute pi, so reading it before set_validation_policy raises
\* AttributeError and the assert's message is never produced
PiLookup(has_pi) == IF has_pi THEN "ok" ELSE "AttributeError"

\* the setter the error of the lookup names
PiErrorNames(res) == IF res = "AssertionError" THEN "set_validation_policy" ELSE "none"

\* evaluate(batch_size, mode) is called: the assert, then `with self:`
EvaluateCall(c) ==
    /\ upc = "idle" /\ n_evals < MaxEvals
    /\ IF PiLookup(pi[c]) # "ok"
       THEN /\ last_op' = OpErr("evaluate", c, PiLookup(pi[c]),
                                PiErrorNames(PiLookup(pi[c])))
            /\ UNCHANGED <<active_context, open_blocks, upc, ucur, etrace, n_evals>>
       ELSE IF EnterRaises(active_context)
       THEN /\ last_op' = Op("evaluate", c, "raised")
            /\ UNCHANGED <<active_context, open_blocks, upc, ucur, etrace, n_evals>>
       ELSE /\ Enter(c)
            /\ last_op' = Op("evaluate", c, "entered")
            /\ upc' = "eval_rollouts"
            /\ ucur' = c
            /\ etrace' = << >>
            /\ n_evals' = n_evals + 1
    /\ UNCHANGED <<mu, optimizer, replay_buffer, on_policy_updates,
                   replay_updates_per_sample, rollouts, loop_i, trace,
                   n_updates, pi, regvars, sigvars, trainvars, othervars>>

\* rollouts = self.env.do_rollouts(self.pi, ..., mode=mode)
EvalRollouts ==
    /\ upc = "eval_rollouts"
    /\ etrace' = Append(etrace, [ev |-> "do_rollouts", mode |-> "val",
                                 batch |-> EvalBatch + n_evals, policy |-> "pi"])
    /\ upc' = "eval_record"
    /\ UNCHANGED <<active_context, open_blocks, mu, optimizer, replay_buffer,
                   on_policy_updates, replay_updates_per_sample, ucur, rollouts,
                   loop_i, trace, n_updates, last_op, pi, n_evals, regvars,
                   sigvars, trainvars, othervars>>

\* the variant of EvalDoUpdate that asks for an update
EvalDoUpdateSet == TRUE

\* line 387: do_update=False
EvalDoUpdate == FALSE

\* eval_record = self._run_and_record(rollouts, mode, None, do_update=False)
EvalRecord ==
    /\ upc = "eval_record"
    /\ etrace' = etrace \o
            LET rec == RunAndRecord(etrace[1].batch, "val", EvalDoUpdate)
            IN  [i \in DOMAIN rec |-> Called(rec[i])]
    /\ upc' = "eval_return"
    /\ UNCHANGED <<active_context, open_blocks, mu, optimizer, replay_buffer,
                   on_policy_updates, replay_updates_per_sample, ucur, rollouts,
                   loop_i, trace, n_updates, last_op, pi, n_evals, regvars,
                   sigvars, trainvars, othervars>>

\* the `with self:` block is left and `return eval_record`
EvaluateReturn ==
    /\ upc = "eval_return"
    /\ Exit
    /\ upc' = "idle"
    /\ last_op' = Op("evaluate", ucur, "returned")
    /\ UNCHANGED <<mu, optimizer, replay_buffer, on_policy_updates,
                   replay_updates_per_sample, ucur, rollouts, loop_i, trace,
                   n_updates, pi, etrace, n_evals, regvars, sigvars, trainvars, othervars>>

\* build_graph(env): the ExitStack enters the context (lines 162-167)
BuildGraphCall(c) ==
    /\ upc = "idle"
    /\ IF EnterRaises(active_context)
       THEN /\ last_op' = Op("build_graph", c, "raised")
            /\ UNCHANGED <<active_context, open_blocks, upc, ucur>>
       ELSE /\ Enter(c)
            /\ last_op' = Op("build_graph", c, "entered")
            /\ upc' = "build_graph"
            /\ ucur' = c
    /\ UNCHANGED <<mu, optimizer, replay_buffer, on_policy_updates,
                   replay_updates_per_sample, rollouts, loop_i, trace,
                   n_updates, evalvars, regvars, sigvars, trainvars, othervars>>

\* lines 169-182 have run: the ExitStack unwinds and build_graph returns
BuildGraphReturn ==
    /\ upc = "build_graph"
    /\ Exit
    /\ upc' = "idle"
    /\ last_op' = Op("build_graph", ucur, "returned")
    /\ UNCHANGED <<mu, optimizer, replay_buffer, on_policy_updates,
                   replay_updates_per_sample, ucur, rollouts, loop_i, trace,
                   n_updates, evalvars, regvars, sigvars, trainvars, othervars>>

\* the statements inside the `with self:` blocks of update and evaluate and
\* inside the ExitStack of build_graph
BodyPcs ==
    {"do_rollouts", "on_policy", "add_rollouts", "loop", "off_policy",
     "eval_rollouts", "eval_record", "build_graph"}
OpOf(pc) ==
    IF pc \in {"eval_rollouts", "eval_record"} THEN "evaluate"
    ELSE IF pc = "build_graph" THEN "build_graph" ELSE "update"

\* a statement of the body raises: __exit__ runs (it returns None, so the
\* exception goes on to the caller) and the locals of the call are gone
BodyRaises ==
    /\ upc \in BodyPcs
    /\ Exit
    /\ upc' = "idle"
    /\ last_op' = Op(OpOf(upc), ucur, "failed")
    /\ rollouts' = 0
    /\ loop_i' = 0
    /\ trace' = << >>
    /\ etrace' = << >>
    /\ UNCHANGED <<mu, optimizer, replay_buffer, on_policy_updates,
                   replay_updates_per_sample, ucur, n_updates, pi, n_evals,
                   regvars, sigvars, trainvars, othervars>>

(***************************************************************************)
(* RLObject.__new__ and RLContext.add_rl_object                            *)
(***************************************************************************)
\* the classes of the objects instantiated: a plain RLObject subclass, an
\* ObjectiveFunctionTerm subclass, an Agent subclass
Classes == {"RLObject", "ObjectiveFunctionTerm", "Agent"}

\* the variant of IsObjectiveFunctionTerm that recognises no term
IsObjectiveFunctionTermNever(cls) == FALSE

\* isinstance(obj, ObjectiveFunctionTerm)
IsObjectiveFunctionTerm(cls) == cls = "ObjectiveFunctionTerm"

\* isinstance(obj, Agent)
IsAgent(cls) == cls = "Agent"

\* add_rl_object(obj) on context c
add_rl_object(c, obj, cls) ==
    /\ objective_fn_terms' = IF IsObjectiveFunctionTerm(cls)
                             THEN [objective_fn_terms EXCEPT ![c] = Append(@, obj)]
                             ELSE objective_fn_terms
    /\ agents' = IF IsAgent(cls) THEN [agents EXCEPT ![c] = Append(@, obj)]
                 ELSE agents
    /\ rl_objects' = [rl_objects EXCEPT ![c] = Append(@, obj)]

\* the variant of NoActiveContext that never finds the slot empty
NoActiveContextNever(ac) == FALSE

\* get_active_context: `if RLContext.active_context is None: raise`
NoActiveContext(ac) == ac = None
NoContextMessage == "No context is currently active."

\* RLObject.__new__ for an object of class cls: get_active_context raises
\* when no context is active; otherwise the new object is registered with
\* the context it returned (`if current_context is not None`) and returned
NewRLObject(cls) ==
    /\ upc = "idle" /\ Len(created) < MaxObjects
    /\ IF NoActiveContext(active_context)
       THEN /\ last_op' = OpErr("new", None, "Exception", NoContextMessage)
            /\ UNCHANGED regvars
       ELSE IF active_context # None
       THEN /\ add_rl_object(active_context, Len(created) + 1, cls)
            /\ created' = Append(created, [obj |-> Len(created) + 1, cls |-> cls,
                                           ctx |-> active_context])
            /\ last_op' = Op("new", active_context, "registered")
       ELSE /\ created' = Append(created, [obj |-> Len(created) + 1, cls |-> cls,
                                           ctx |-> None])
            /\ last_op' = Op("new", None, "unregistered")
            /\ UNCHANGED <<rl_objects, objective_fn_terms, agents>>
    /\ UNCHANGED <<active_context, open_blocks, mu, optimizer, replay_buffer,
                   on_policy_updates, replay_updates_per_sample, upc, ucur,
                   rollouts, loop_i, trace, n_updates, evalvars, sigvars,
                   trainvars, othervars>>


(***************************************************************************)
(* RLUpdater (dps/rl/base.py)                                              *)
(***************************************************************************)
\* learner names and the names of recorded values, as token sequences; the
\* default name of an RLContext is the empty string
LearnerNames == {<< >>, <<"a">>, <<"b">>, <<"a", ":", "b">>}
RecordedKeys == {<< <<"loss">> >>, << <<"loss">>, <<"a", ":", "loss">> >>}
Learners == [name : LearnerNames, recorded : RecordedKeys, buffered : BOOLEAN]

\* the lists of learners an RLUpdater is constructed with
LearnerLists == UNION {[1..n -> Learners] : n \in 1..MaxLearners}

\* learner_names = [l.name for l in self.learners]
learner_names(ls) == [i \in DOMAIN ls |-> ls[i].name]

\* the variant of UniqueNames without the check
UniqueNamesUnchecked(ls) == TRUE

\* len(learner_names) == len(set(learner_names))
UniqueNames(ls) ==
    Len(ls) = Cardinality({learner_names(ls)[i] : i \in DOMAIN ls})

\* RLUpdater.__init__(env, learners): self.learners is set, then the
\* assert; only then Updater.__init__
UpdaterInit ==
    /\ ustate = "none"
    /\ \E ls \in LearnerLists :
        /\ learners' = ls
        /\ IF UniqueNames(ls)
           THEN ustate' = "constructed" /\ UNCHANGED umessage
           ELSE ustate' = "AssertionError" /\ umessage' = learner_names(ls)
    /\ UNCHANGED <<graph_built, uwrites, ucalls, ureturn, n_ucalls, sigvars,
                   ctxvars, trainvars, bankvars, gridvars, morevars>>

\* build_graph / _build_graph: learner.build_graph(self.env) for each
BuildGraph ==
    /\ ustate = "constructed" /\ ~graph_built
    /\ graph_built' = TRUE
    /\ UNCHANGED <<learners, ustate, umessage, uwrites, ucalls, ureturn,
                   n_ucalls, sigvars, ctxvars, trainvars, bankvars,
                   gridvars, morevars>>

\* the variant of MergedKey that always prefixes
MergedKeyAlways(name, k) == name \o <<":">> \o k

\* key = (learner.name + ":" if learner.name else "") + k
MergedKey(name, k) == (IF name # << >> THEN name \o <<":">> ELSE << >>) \o k

\* the keys of the records RLContext.update returns (lines 355, 374) and of
\* the record RLContext.evaluate returns (lines 390-391)
TrainKeys(l) == l.recorded \o << <<"step_duration">>, <<"rollout_duration">> >>
OffPolicyKeys(l) == IF l.buffered THEN l.recorded \o << <<"step_duration">> >>
                    ELSE << >>
EvalKeys(l) == l.recorded \o << <<"eval_duration">>, <<"rollout_duration">> >>

\* the writes merging learner i's record makes into record rec
Writes(ls, i, keys, rec, w) ==
    [j \in DOMAIN keys |-> [rec |-> rec, key |-> MergedKey(ls[i].name, keys[j]),
                            learner |-> i, recorded |-> keys[j], weight |-> w]]

RECURSIVE UpdateWrites(_, _)
\* lines 438-446, for the learners from i on
UpdateWrites(ls, i) ==
    IF i > Len(ls) THEN << >>
    ELSE Writes(ls, i, TrainKeys(ls[i]), "train", 1)
         \o Writes(ls, i, OffPolicyKeys(ls[i]), "off_policy", 1)
         \o UpdateWrites(ls, i + 1)

\* the keys of a merged record after the writes
RecordKeys(ws, rec) == {ws[j].key : j \in {x \in DOMAIN ws : ws[x].rec = rec}}

\* RLUpdater._update(batch_size)
UpdaterUpdate ==
    /\ ustate = "constructed" /\ graph_built /\ n_ucalls < MaxCalls
    /\ ucalls' = [i \in DOMAIN learners |-> [op |-> "update", learner |-> i]]
    /\ uwrites' = UpdateWrites(learners, 1)
    /\ ureturn' = [train |-> RecordKeys(uwrites', "train"),
                   off_policy |-> RecordKeys(uwrites', "off_policy")]
    /\ n_ucalls' = n_ucalls + 1
    /\ UNCHANGED <<learners, ustate, umessage, graph_built, sigvars, ctxvars,
                   trainvars, bankvars, gridvars, morevars>>

\* n_iters = int(np.ceil(n_rollouts / batch_size))
n_iters(n_rollouts, batch_size) == (n_rollouts + batch_size - 1) \div batch_size

\* the variant of IterBatchSize that ignores what remains
IterBatchSizeFull(n_rollouts, batch_size, it) == batch_size

\* _batch_size = min(batch_size, n_rollouts - it * batch_size)
IterBatchSize(n_rollouts, batch_size, it) ==
    IF batch_size < n_rollouts - it * batch_size THEN batch_size
    ELSE n_rollouts - it * batch_size

RECURSIVE EvalWrites(_, _, _, _, _)
\* lines 455-464, from iteration it and learner i on
EvalWrites(ls, n_rollouts, batch_size, it, i) ==
    IF it >= n_iters(n_rollouts, batch_size) THEN << >>
    ELSE IF i > Len(ls) THEN EvalWrites(ls, n_rollouts, batch_size, it + 1, 1)
    ELSE Writes(ls, i, EvalKeys(ls[i]), "eval",
                IterBatchSize(n_rollouts, batch_size, it))
         \o EvalWrites(ls, n_rollouts, batch_size, it, i + 1)

RECURSIVE EvalCalls(_, _, _, _, _)
\* the learner.evaluate calls of lines 455-460
EvalCalls(ls, n_rollouts, batch_size, it, i) ==
    IF it >= n_iters(n_rollouts, batch_size) THEN << >>
    ELSE IF i > Len(ls) THEN EvalCalls(ls, n_rollouts, batch_size, it + 1, 1)
    ELSE << [op |-> "evaluate", learner |-> i] >>
         \o EvalCalls(ls, n_rollouts, batch_size, it, i + 1)

\* RLUpdater._evaluate(batch_size, mode), with cfg.n_val_rollouts
UpdaterEvaluate ==
    /\ ustate = "constructed" /\ graph_built /\ n_ucalls < MaxCalls
    /\ \E n_rollouts \in 1..MaxValRollouts, batch_size \in 1..MaxValBatch :
        /\ ucalls' = EvalCalls(learners, n_rollouts, batch_size, 0, 1)
        /\ uwrites' = EvalWrites(learners, n_rollouts, batch_size, 0, 1)
    /\ ureturn' = [train |-> RecordKeys(uwrites', "eval"), off_policy |-> {}]
    /\ n_ucalls' = n_ucalls + 1
    /\ UNCHANGED <<learners, ustate, umessage, graph_built, sigvars, ctxvars,
                   trainvars, bankvars, gridvars, morevars>>

UpdIdle ==
    /\ learners = << >>
    /\ ustate = "none"
    /\ umessage = << >>
    /\ graph_built = FALSE
    /\ uwrites = << >>
    /\ ucalls = << >>
    /\ ureturn = [train |-> {}, off_policy |-> {}]
    /\ n_ucalls = 0

(***************************************************************************)
(* RegisterSpec (dps/register.py)                                          *)
(*                                                                         *)
(* A register of shape (None, w) is the sequence of its w columns along    *)
(* the axis of the observation; a column stands for the values of that     *)
(* position over the batch.                                                *)
(***************************************************************************)
\* the values a column of a register takes
Columns == {0, 1}

\* whether the registers are ndarrays or Tensors
Kinds == {"ndarray", "Tensor"}

\* the RegisterSpecs: per register, shape[1] of its entry of shapes() and
\* its visible flag
RegisterSpecs ==
    UNION {[widths : [1..n -> 1..MaxWidth], visible : [1..n -> BOOLEAN]] :
           n \in 1..MaxRegisters}

\* the banks of a RegisterSpec
Banks(rs) ==
    {b \in [DOMAIN rs.widths -> UNION {[1..w -> Columns] : w \in 1..MaxWidth}] :
        \A i \in DOMAIN rs.widths : Len(b[i]) = rs.widths[i]}

\* the result of a call that returned v
Returns(v) == [raised |-> "none", value |-> v]

\* the result of a call that raised the exception e
Raises(e) == [raised |-> e, value |-> << >>]

RECURSIVE Concat(_)
\* np.concatenate(values, axis) and tf.concat(values, axis)
Concat(values) ==
    IF values = << >> THEN << >> ELSE Head(values) \o Concat(Tail(values))

RECURSIVE SumSeq(_)
SumSeq(ws) == IF ws = << >> THEN 0 ELSE Head(ws) + SumSeq(Tail(ws))

\* np.cumsum(ws)
Cumsum(ws) == [i \in DOMAIN ws |-> SumSeq(SubSeq(ws, 1, i))]

\* split_locs[:-1]
AllButLast(ws) == SubSeq(ws, 1, Len(ws) - 1)

RECURSIVE Select(_, _)
\* [x for x, k in zip(xs, keep) if k]
Select(xs, keep) ==
    IF xs = << >> THEN << >>
    ELSE (IF Head(keep) THEN <<Head(xs)>> ELSE << >>)
         \o Select(Tail(xs), Tail(keep))

\* RegisterSpec.names, as the positions of the registers
names(rs) == [i \in DOMAIN rs.widths |-> i]

\* RegisterSpec.shapes, as shape[1] of every entry
shapes(rs, vo) ==
    Select(rs.widths, [i \in DOMAIN rs.widths |-> rs.visible[i] \/ ~vo])

\* RegisterSpec.get_register_values with as_obs set: no names means all
\* the names, and a single value is returned as it is
get_register_values(rs, regs, ns) ==
    LET used == IF ns = << >> THEN names(rs) ELSE ns
        values == [k \in DOMAIN used |-> regs[used[k]]]
    IN IF Len(values) > 1 THEN Concat(values) ELSE values[1]

\* RegisterSpec.as_obs
as_obs(rs, regs, vo) ==
    get_register_values(rs, regs,
        IF vo THEN Select(names(rs), rs.visible) ELSE names(rs))

\* a[lo:hi] with 0-based bounds
Slice(a, lo, hi) ==
    LET h == IF hi > Len(a) THEN Len(a) ELSE hi
    IN IF lo >= h THEN << >> ELSE SubSeq(a, lo + 1, h)

\* np.split(a, locs, axis): the pieces between consecutive locations
np_split(a, locs) ==
    Returns([k \in 1..(Len(locs) + 1) |->
        Slice(a, IF k = 1 THEN 0 ELSE locs[k - 1],
                 IF k > Len(locs) THEN Len(a) ELSE locs[k])])

\* tf.split(a, size_splits, axis): one piece per entry of size_splits, of
\* that size; the sizes have to add up to the size of a along the axis
tf_split(a, sizes) ==
    IF sizes = << >> \/ SumSeq(sizes) # Len(a) THEN Raises("ValueError")
    ELSE Returns([k \in DOMAIN sizes |->
             Slice(a, SumSeq(SubSeq(sizes, 1, k - 1)),
                      SumSeq(SubSeq(sizes, 1, k)))])

\* RegisterSpec.wrap: the namedtuple takes one value per name
wrap(rs, values) ==
    IF Len(values) # Len(names(rs)) THEN Raises("TypeError")
    ELSE Returns(values)

\* RegisterSpec.from_obs
from_obs(rs, knd, o) ==
    LET split_locs == Cumsum(shapes(rs, FALSE))
        values == IF knd = "ndarray" THEN np_split(o, AllButLast(split_locs))
                  ELSE tf_split(o, AllButLast(split_locs))
    IN IF values.raised # "none" THEN values ELSE wrap(rs, values.value)

\* obs = rb.as_obs(b, visible_only=vo)
AsObs(vo) ==
    /\ rpc = "bank"
    /\ visible_only' = vo
    /\ obs' = as_obs(rspec, registers, vo)
    /\ rpc' = "obs"
    /\ UNCHANGED <<rspec, registers, kind, unpacked, obs2, sigvars, ctxvars,
                   trainvars, updvars, gridvars, morevars>>

\* rb.from_obs(obs)
FromObs ==
    /\ rpc = "obs"
    /\ unpacked' = from_obs(rspec, kind, obs)
    /\ rpc' = "unpacked"
    /\ UNCHANGED <<rspec, registers, kind, visible_only, obs, obs2, sigvars,
                   ctxvars, trainvars, updvars, gridvars, morevars>>

\* rb.as_obs(rb.from_obs(obs))
AsObsAgain ==
    /\ rpc = "unpacked"
    /\ unpacked.raised = "none"
    /\ obs2' = as_obs(rspec, unpacked.value, visible_only)
    /\ rpc' = "packed again"
    /\ UNCHANGED <<rspec, registers, kind, visible_only, obs, unpacked,
                   sigvars, ctxvars, trainvars, updvars, gridvars, morevars>>

BankIdle ==
    /\ rspec = [widths |-> <<1>>, visible |-> <<TRUE>>]
    /\ registers = << <<0>> >>
    /\ kind = "ndarray"
    /\ visible_only = FALSE
    /\ obs = << >>
    /\ unpacked = Returns(<< >>)
    /\ obs2 = << >>
    /\ rpc = "idle"

BankInit ==
    /\ rspec \in RegisterSpecs
    /\ registers \in Banks(rspec)
    /\ kind \in Kinds
    /\ visible_only = FALSE
    /\ obs = << >>
    /\ unpacked = Returns(<< >>)
    /\ obs2 = << >>
    /\ rpc = "bank"

(***************************************************************************)
(* GridArithmetic, GridArithmeticEasy, OmniglotCounting                    *)
(* (dps/envs/grid_arithmetic.py)                                           *)
(*                                                                         *)
(* The acc register is a float: a finite value is kept as an exact         *)
(* fraction n/d, and a division by zero gives an infinity or a NaN as in   *)
(* IEEE arithmetic.  The components of an action are 0.0 or 1.0.           *)
(***************************************************************************)
\* tf.clip_by_value(acc, -1000.0, 1000.0)
AccClip == 1000

\* cfg.env_shape
EnvShape == <<2, 2>>

\* cfg.start_loc
StartLoc == <<0, 0>>

Abs(n) == IF n < 0 THEN -n ELSE n

RECURSIVE GCD(_, _)
GCD(m, n) == IF n = 0 THEN m ELSE GCD(n, m % n)

\* the finite float n/d, d > 0, in lowest terms
Fin(n, d) == [k |-> "fin", n |-> n, d |-> d]

\* the float of an integer register
Float(n) == Fin(n, 1)

\* the infinity of sign s, and NaN
Inf(s) == [k |-> "inf", n |-> s, d |-> 1]
NaN == [k |-> "nan", n |-> 0, d |-> 1]

Norm(n, d) ==
    LET g == GCD(Abs(n), Abs(d))
        s == IF d < 0 THEN -1 ELSE 1
    IN Fin((s * n) \div g, Abs(d) \div g)

Sgn(x) == IF x.n > 0 THEN 1 ELSE IF x.n < 0 THEN -1 ELSE 0

\* x + y
FAdd(x, y) ==
    IF x.k = "nan" \/ y.k = "nan" THEN NaN
    ELSE IF x.k = "inf" /\ y.k = "inf" THEN (IF x.n = y.n THEN x ELSE NaN)
    ELSE IF x.k = "inf" THEN x
    ELSE IF y.k = "inf" THEN y
    ELSE Norm(x.n * y.d + y.n * x.d, x.d * y.d)

\* x * y
FMul(x, y) ==
    IF x.k = "nan" \/ y.k = "nan" THEN NaN
    ELSE IF x.k = "inf" \/ y.k = "inf"
         THEN (IF Sgn(x) * Sgn(y) = 0 THEN NaN ELSE Inf(Sgn(x) * Sgn(y)))
    ELSE Norm(x.n * y.n, x.d * y.d)

\* x - y
FSub(x, y) == FAdd(x, FMul(Float(-1), y))

\* x / y
FDiv(x, y) ==
    IF x.k = "nan" \/ y.k = "nan" THEN NaN
    ELSE IF x.k = "inf" /\ y.k = "inf" THEN NaN
    ELSE IF x.k = "inf" THEN Inf(IF Sgn(y) < 0 THEN -x.n ELSE x.n)
    ELSE IF y.k = "inf" THEN Float(0)
    ELSE IF y.n = 0 THEN (IF x.n = 0 THEN NaN ELSE Inf(Sgn(x)))
    ELSE Norm(x.n * y.d, x.d * y.n)

\* x < y, for floats that are not NaN
FLess(x, y) ==
    IF x.k = "inf" THEN x.n < 0 /\ y # x
    ELSE IF y.k = "inf" THEN y.n > 0
    ELSE x.n * y.d < y.n * x.d

\* tf.maximum and tf.minimum of floats that are not NaN
Maximum(x, y) == IF FLess(x, y) THEN y ELSE x
Minimum(x, y) == IF FLess(y, x) THEN y ELSE x

\* tf.clip_by_value(x, lo, hi), as the set of values it can give: it is
\* maximum(minimum(x, hi), lo), and which operand a minimum or maximum with
\* a NaN returns depends on the kernel that computes it
clip_by_value(x, lo, hi) ==
    IF x.k = "nan" THEN {NaN, lo, hi} ELSE {Maximum(Minimum(x, hi), lo)}

\* clip of an integer register
ClipInt(n, lo, hi) == IF n < lo THEN lo ELSE IF n > hi THEN hi ELSE n

\* GridArithmetic.arithmetic_actions_dict
arithmetic_actions_dict(key, acc, digit) ==
    CASE key = "+" -> FAdd(acc, digit)
      [] key = "-" -> FSub(acc, digit)
      [] key = "*" -> FMul(acc, digit)
      [] key = "/" -> FDiv(acc, digit)
      [] key = "max" -> Maximum(acc, digit)
      [] key = "min" -> Minimum(acc, digit)
      [] key = "+1" -> FAdd(acc, Float(1))
      [] key = "-1" -> FSub(acc, Float(1))

\* the keys of arithmetic_actions_dict in the order of sorted()
SortedKeys == <<"*", "+", "+1", "-", "-1", "/", "max", "min">>

\* sorted(self.arithmetic_actions)
sorted(keys) == SelectSeq(SortedKeys, LAMBDA key : key \in keys)

\* the values of cfg.arithmetic_actions explored
ArithmeticActions == {{"*", "+"}, {"-1", "/", "max"}, {"+1", "-", "min"}}

\* the environment classes
Variants == {"GridArithmetic", "GridArithmeticEasy", "OmniglotCounting"}

\* the environments: class, cfg.arithmetic_actions, cfg.salience_action
GridConfigs ==
    [variant : Variants, arithmetic_actions : ArithmeticActions,
     salience_action : BOOLEAN]

\* _action_names of the class
ClassActionNames(variant) ==
    <<">", "<", "v", "^", "classify_digit", "classify_op">>
    \o (IF variant = "OmniglotCounting" THEN <<"classify_omniglot">>
        ELSE << >>)

\* self.action_names
action_names(env) ==
    ClassActionNames(env.variant) \o <<"update_salience">>
    \o sorted(env.arithmetic_actions)

ToSet(s) == {s[i] : i \in DOMAIN s}

\* the action with the components of the names in hot at 1.0, the others
\* at 0.0
Hot(env, hot) ==
    [nm \in ToSet(action_names(env)) |-> IF nm \in hot THEN 1 ELSE 0]

\* the actions explored: every one-hot action, the all-zero action, and
\* the action with every arithmetic component hot
GridActions(env) ==
    {Hot(env, {nm}) : nm \in ToSet(action_names(env))}
    \cup {Hot(env, {}), Hot(env, env.arithmetic_actions)}

\* tf.argmax(a, axis=1): the 0-based position of the first largest
\* component
argmax(env, act) ==
    LET nms == action_names(env)
        best == CHOOSE i \in DOMAIN nms :
                    /\ \A j \in DOMAIN nms : act[nms[j]] <= act[nms[i]]
                    /\ \A j \in 1..(i - 1) : act[nms[j]] < act[nms[i]]
    IN best - 1

\* the cells of the grid, as (y, x)
Cells == (0..(EnvShape[1] - 1)) \X (0..(EnvShape[2] - 1))

\* what a cell of the input shows
Symbol(kd, v) == [kind |-> kd, v |-> v]

\* the inputs explored: the op at cfg.op_loc, a digit, an omniglot
\* character and a blank cell
Images ==
    {[c \in Cells |->
        IF c = <<0, 0>> THEN Symbol("op", 0)
        ELSE IF c = <<0, 1>> THEN Symbol("digit", dg)
        ELSE IF c = <<1, 0>> THEN Symbol("omniglot", 0)
        ELSE Symbol("blank", 0)] : dg \in 0..MaxDigit}

\* a register nothing has been written to yet (np.zeros)
Zeros == <<-1, -1>>

\* _build_update_glimpse: the patch of the input at the fovea
GlimpseAt(fovea_y, fovea_x) == <<fovea_y, fovea_x>>

\* classifier_head of a classifier's output on a glimpse: the class, or -1
\* when the classifier sees none of its classes
classifier_head(img, glimpse, kd) ==
    IF glimpse \in Cells /\ img[glimpse].kind = kd THEN img[glimpse].v
    ELSE -1

\* (1 - w) * old + w * new for the outputs of the salience detector
Mix(w, old, new) == IF w = 1 THEN new ELSE old

\* _build_update_salience
build_update_salience(w, salience, salience_input, fovea_y, fovea_x) ==
    [salience |-> Mix(w, salience, <<fovea_y, fovea_x>>),
     salience_input |-> Mix(w, salience_input, <<fovea_y, fovea_x>>)]

\* _build_update_storage
build_update_storage(img, glimpse, prev_digit, classify_digit, prev_op, classify_op) ==
    [digit |-> (1 - classify_digit) * prev_digit
               + classify_digit * classifier_head(img, glimpse, "digit"),
     op |-> (1 - classify_op) * prev_op
            + classify_op * classifier_head(img, glimpse, "op")]

\* _build_update_fovea
build_update_fovea(right, left, down, up, fovea_y, fovea_x) ==
    [fovea_x |-> ClipInt((1 - right - left) * fovea_x + right * (fovea_x + 1)
                         + left * (fovea_x - 1), 0, EnvShape[2] - 1),
     fovea_y |-> ClipInt((1 - down - up) * fovea_y + down * (fovea_y + 1)
                         + up * (fovea_y - 1), 0, EnvShape[1] - 1)]

RECURSIVE WeightedOps(_, _, _, _)
\* the sum of action * self.arithmetic_actions[key](acc, digit) over the
\* keys
WeightedOps(keys, act, acc, digit) ==
    IF keys = << >> THEN Float(0)
    ELSE FAdd(FMul(Float(act[Head(keys)]),
                 arithmetic_actions_dict(Head(keys), acc, Float(digit))),
             WeightedOps(Tail(keys), act, acc, digit))

RECURSIVE SumActions(_, _)
\* the sum of the arithmetic components of the action
SumActions(keys, act) ==
    IF keys = << >> THEN 0
    ELSE act[Head(keys)] + SumActions(Tail(keys), act)

\* the digit register after the step: GridArithmetic takes it from
\* _build_update_storage, the other two classes also classify on every
\* arithmetic action
NewDigit(env, img, r, act) ==
    LET keys == sorted(env.arithmetic_actions)
        digit == classifier_head(img, r.glimpse, "digit")
        new_digit_factor == act["classify_digit"] + SumActions(keys, act)
    IN IF env.variant = "GridArithmetic"
       THEN build_update_storage(img, r.glimpse, r.digit,
                act["classify_digit"], r.op, act["classify_op"]).digit
       ELSE (1 - new_digit_factor) * r.digit + new_digit_factor * digit

\* acc before tf.clip_by_value: GridArithmetic applies the operations to
\* the previous digit, the other two classes to the new one
NewAcc(env, img, r, act) ==
    LET keys == sorted(env.arithmetic_actions)
        digit == IF env.variant = "GridArithmetic" THEN r.digit
                 ELSE NewDigit(env, img, r, act)
    IN FAdd(WeightedOps(keys, act, r.acc, digit),
           FMul(Float(1 - SumActions(keys, act)), r.acc))

\* build_step, given the value c that tf.clip_by_value gives
build_step(env, img, r, act, c) ==
    LET sal == IF env.salience_action
               THEN build_update_salience(act["update_salience"], r.salience,
                        r.salience_input, r.fovea_y, r.fovea_x)
               ELSE [salience |-> r.salience,
                     salience_input |-> r.salience_input]
        sto == build_update_storage(img, r.glimpse, r.digit,
                   act["classify_digit"], r.op, act["classify_op"])
        fov == build_update_fovea(act[">"], act["<"], act["v"], act["^"],
                   r.fovea_y, r.fovea_x)
    IN [omniglot |->
            IF env.variant = "OmniglotCounting"
            THEN (1 - act["classify_omniglot"]) * r.omniglot
                 + act["classify_omniglot"]
                   * classifier_head(img, r.glimpse, "omniglot")
            ELSE r.omniglot,
        digit |-> NewDigit(env, img, r, act),
        op |-> sto.op,
        acc |-> c,
        fovea_x |-> fov.fovea_x,
        fovea_y |-> fov.fovea_y,
        prev_action |-> argmax(env, act),
        salience |-> sal.salience,
        glimpse |-> GlimpseAt(fov.fovea_y, fov.fovea_x),
        salience_input |-> sal.salience_input]

\* build_init, with the acc and digit registers as a rollout has left them
build_init(acc, digit) ==
    [omniglot |-> -1, digit |-> digit, op |-> -1, acc |-> acc,
     fovea_x |-> StartLoc[2], fovea_y |-> StartLoc[1], prev_action |-> -1,
     salience |-> Zeros, glimpse |-> GlimpseAt(StartLoc[1], StartLoc[2]),
     salience_input |-> Zeros]

\* the values of the acc register a rollout starts the step from
AccValues == {Float(-1), Float(0), Float(400)}

\* one build_step of the environment
GridStep(act) ==
    /\ grid_t < GridSteps
    /\ grid_r.acc.k = "fin"
    /\ act \in GridActions(grid_env)
    /\ \E c \in clip_by_value(NewAcc(grid_env, input_ph, grid_r, act),
                              Float(-AccClip), Float(AccClip)) :
           grid_r' = build_step(grid_env, input_ph, grid_r, act, c)
    /\ grid_prev' = grid_r
    /\ grid_a' = act
    /\ grid_t' = grid_t + 1
    /\ UNCHANGED <<grid_env, input_ph, sigvars, ctxvars, trainvars, updvars,
                   bankvars, morevars>>

GridIdle ==
    /\ grid_env = [variant |-> "GridArithmetic",
                   arithmetic_actions |-> {"*", "+"},
                   salience_action |-> FALSE]
    /\ input_ph = CHOOSE img \in Images : TRUE
    /\ grid_r = build_init(Float(-1), -1)
    /\ grid_prev = grid_r
    /\ grid_a = Hot(grid_env, {})
    /\ grid_t = GridSteps

GridInit ==
    /\ grid_env \in GridConfigs
    /\ input_ph \in Images
    /\ \E acc \in AccValues, digit \in -1..MaxDigit :
           grid_r = build_init(acc, digit)
    /\ grid_prev = grid_r
    /\ grid_a = Hot(grid_env, {})
    /\ grid_t = 0

(***************************************************************************)
(* RegisterSpec.get_register_values: the lookup of a register in a bank    *)
(* (dps/register.py)                                                       *)
(***************************************************************************)
\* self.names of the RegisterSpec whose registers are looked up
SpecNames == <<"digit", "acc">>

\* the names a caller asks for: the names of the spec and a mistyped one
AskedNames == {SpecNames[i] : i \in DOMAIN SpecNames} \cup {"ac"}

\* the ordered selections of the names of the spec
NameLists ==
    {<< >>, <<"digit">>, <<"acc">>, <<"digit", "acc">>, <<"acc", "digit">>}

\* the banks searched: a namedtuple with the fields, a dict with the keys,
\* or a plain list holding the values of the registers in that order
LookupBanks == [type : {"namedtuple", "dict", "list"}, has : NameLists]

\* what a lookup step gives: a value, or the exception it raises
Got(v) == [raised |-> "none", value |-> v]
Fails(e) == [raised |-> e, value |-> "none"]

InSeq(x, xs) == \E i \in DOMAIN xs : xs[i] = x

\* getattr(registers, name)
GetAttr(bank, nm) ==
    IF bank.type = "namedtuple" /\ InSeq(nm, bank.has) THEN Got(nm)
    ELSE Fails("AttributeError")

\* registers[name]
GetItemByName(bank, nm) ==
    IF bank.type = "dict"
    THEN (IF InSeq(nm, bank.has) THEN Got(nm) ELSE Fails("KeyError"))
    ELSE Fails("TypeError")

\* self.names.index(name), 0-based
NamesIndex(nm) ==
    IF InSeq(nm, SpecNames)
    THEN Got((CHOOSE i \in DOMAIN SpecNames : SpecNames[i] = nm) - 1)
    ELSE Fails("ValueError")

\* registers[i] for an int i
GetItemByIndex(bank, i) ==
    IF bank.type = "dict" THEN Fails("KeyError")
    ELSE IF i < Len(bank.has) THEN Got(bank.has[i + 1])
    ELSE Fails("IndexError")

\* registers[self.names.index(name)]
GetPositional(bank, nm) ==
    IF NamesIndex(nm).raised # "none" THEN Fails(NamesIndex(nm).raised)
    ELSE GetItemByIndex(bank, NamesIndex(nm).value)

\* the message of the Exception of line 97
LookupMessage(bank, nm) == [searched |-> bank, missing |-> nm]

\* lines 86-101: the value of one register, or the exception that leaves
\* the loop
LookupOne(bank, nm) ==
    LET attr == GetAttr(bank, nm)
        item == GetItemByName(bank, nm)
        pos == GetPositional(bank, nm)
    IN IF attr.raised # "AttributeError" THEN [attr EXCEPT !.value = <<@>>]
       ELSE IF item.raised \notin {"TypeError", "KeyError"}
            THEN [item EXCEPT !.value = <<@>>]
       ELSE IF pos.raised = "none" THEN [pos EXCEPT !.value = <<@>>]
       ELSE IF pos.raised \in {"TypeError", "IndexError"}
            THEN [raised |-> "Exception",
                  value |-> <<LookupMessage(bank, nm)>>]
       ELSE [raised |-> pos.raised, value |-> << >>]

RECURSIVE LookupAll(_, _)
\* the loop of lines 85-101 with as_obs unset: the tuple of the values, or
\* the first exception
LookupAll(bank, ns) ==
    IF ns = << >> THEN [raised |-> "none", value |-> << >>]
    ELSE LET first == LookupOne(bank, Head(ns))
             others == LookupAll(bank, Tail(ns))
         IN IF first.raised # "none" THEN first
            ELSE IF others.raised # "none" THEN others
            ELSE [raised |-> "none", value |-> first.value \o others.value]

\* rb.get_register_values(registers, *names, as_obs=False)
GetRegisterValues ==
    /\ lk_pc = "call"
    /\ lk_result' = LookupAll(lk_registers,
                              IF lk_names = << >> THEN SpecNames ELSE lk_names)
    /\ lk_pc' = "done"
    /\ UNCHANGED <<lk_registers, lk_names, sigvars, ctxvars, trainvars,
                   updvars, bankvars, gridvars, patchvars,
                   hookvars, keyvars, meanvars>>

LookupIdle ==
    /\ lk_registers = [type |-> "list", has |-> << >>]
    /\ lk_names = << >>
    /\ lk_result = [raised |-> "none", value |-> << >>]
    /\ lk_pc = "idle"

LookupInit ==
    /\ lk_registers \in LookupBanks
    /\ lk_names \in UNION {[1..n -> AskedNames] : n \in 0..MaxNames}
    /\ lk_result = [raised |-> "none", value |-> << >>]
    /\ lk_pc = "call"

(***************************************************************************)
(* PatchesBuilder (dps/datasets/base.py): placing the patches of an image. *)
(* The draw area is a strip of draw_shape[1] cells and a patch covers      *)
(* consecutive cells of it.                                                *)
(***************************************************************************)
\* max_overlap=None
NoMaxOverlap == -1

\* the numbers of patches the _sample_patches of a builder can give
PatchCounts == {{0}, {0, 1}, 1..MaxPatches}

\* the builders: draw_shape, patch and distractor shape, max_overlap,
\* max_attempts, n_distractors_per_image, and what _sample_patches gives
Builders ==
    [draw_shape : 1..MaxDraw, patch_shape : 1..MaxPatchWidth,
     distractor_shape : 1..MaxPatchWidth,
     max_overlap : {NoMaxOverlap} \cup (0..MaxOverlap),
     max_attempts : 0..MaxAttempts, n_distractors_per_image : 0..1,
     counts : PatchCounts]

\* no exception
NoError == [type |-> "none", n_rects |-> 0, draw_shape |-> 0, max_overlap |-> 0]

\* the Exception of lines 419-422
CouldNotFit(n, b) ==
    [type |-> "Could not fit rectangles.", n_rects |-> n,
     draw_shape |-> b.draw_shape, max_overlap |-> b.max_overlap]

\* np.random.randint(0, high) raises ValueError for high <= 0
RandintError == [type |-> "ValueError", n_rects |-> 0, draw_shape |-> 0,
                 max_overlap |-> 0]

\* area[rect.top:rect.bottom, rect.left:rect.right] += 1 over the rects
Area(lefts, w, cell) ==
    Cardinality({k \in DOMAIN lefts : lefts[k] <= cell /\ cell < lefts[k] + w})

RECURSIVE OverlapFrom(_, _, _, _)
\* (area[area >= 2] - 1).sum(), summed from the cell on
OverlapFrom(lefts, w, cell, width) ==
    IF cell >= width THEN 0
    ELSE (IF Area(lefts, w, cell) >= 2 THEN Area(lefts, w, cell) - 1 ELSE 0)
         + OverlapFrom(lefts, w, cell + 1, width)

\* line 413: the locations are accepted
Fits(b, lefts, w, max_overlap) ==
    \/ max_overlap = NoMaxOverlap
    \/ OverlapFrom(lefts, w, 0, b.draw_shape) < max_overlap

\* line 272: patches, patch_labels, image_label = self._sample_patches()
SamplePatches ==
    /\ p_pc = "patches"
    /\ \E n \in pb.counts :
        /\ n_rects' = n
        /\ p_pc' = IF n = 0 THEN "placed" ELSE "locations"
    /\ p_i' = 0
    /\ UNCHANGED <<pb, rects, p_error, sigvars, ctxvars, trainvars, updvars,
                   bankvars, gridvars, lookupvars,
                   hookvars, keyvars, meanvars>>

\* one pass of the loop of _sample_patch_locations (lines 396-422) for the
\* n rectangles of width w
LocationsAttempt(w, max_overlap, placed) ==
    IF w > pb.draw_shape
    THEN /\ p_error' = RandintError
         /\ p_pc' = "failed"
         /\ UNCHANGED <<p_i, rects>>
    ELSE \E lefts \in [1..n_rects -> 0..(pb.draw_shape - w)] :
           IF Fits(pb, lefts, w, max_overlap)
           THEN /\ rects' = lefts
                /\ p_pc' = placed
                /\ UNCHANGED <<p_i, p_error>>
           ELSE /\ p_i' = p_i + 1
                /\ IF p_i + 1 > pb.max_attempts
                   THEN /\ p_error' = CouldNotFit(n_rects, pb)
                        /\ p_pc' = "failed"
                   ELSE UNCHANGED <<p_error, p_pc>>
                /\ UNCHANGED rects

\* lines 274-277: self._sample_patch_locations(patch_shapes, max_overlap=...)
SamplePatchLocations ==
    /\ p_pc = "locations"
    /\ LocationsAttempt(pb.patch_shape, pb.max_overlap, "placed")
    /\ UNCHANGED <<pb, n_rects, sigvars, ctxvars, trainvars, updvars,
                   bankvars, gridvars, lookupvars,
                   hookvars, keyvars, meanvars>>

\* line 296: if self.n_distractors_per_image > 0
AfterPatches ==
    /\ p_pc = "placed"
    /\ p_pc' = IF pb.n_distractors_per_image > 0 THEN "distractors" ELSE "done"
    /\ UNCHANGED <<pb, n_rects, p_i, rects, p_error, sigvars, ctxvars,
                   trainvars, updvars, bankvars, gridvars, lookupvars,
                   hookvars, keyvars, meanvars>>

\* _sample_distractors: one pass of `while not patches` (lines 429-430),
\* and once there are patches the cutting of the distractors (432-443)
SampleDistractors ==
    /\ p_pc = "distractors"
    /\ \E n \in pb.counts :
        IF n = 0
        THEN UNCHANGED <<p_pc, n_rects, p_i, p_error>>
        ELSE IF pb.patch_shape < pb.distractor_shape
        THEN /\ p_error' = RandintError
             /\ p_pc' = "failed"
             /\ UNCHANGED <<n_rects, p_i>>
        ELSE /\ n_rects' = pb.n_distractors_per_image
             /\ p_i' = 0
             /\ p_pc' = "distractor locations"
             /\ UNCHANGED p_error
    /\ UNCHANGED <<pb, rects, sigvars, ctxvars, trainvars, updvars, bankvars,
                   gridvars, lookupvars,
                   hookvars, keyvars, meanvars>>

\* line 299: self._sample_patch_locations(distractor_shapes)
SampleDistractorLocations ==
    /\ p_pc = "distractor locations"
    /\ LocationsAttempt(pb.distractor_shape, NoMaxOverlap, "done")
    /\ UNCHANGED <<pb, n_rects, sigvars, ctxvars, trainvars, updvars,
                   bankvars, gridvars, lookupvars,
                   hookvars, keyvars, meanvars>>

PatchIdle ==
    /\ pb = CHOOSE b \in Builders : TRUE
    /\ p_pc = "idle"
    /\ n_rects = 0
    /\ p_i = 0
    /\ rects = << >>
    /\ p_error = NoError

PatchInit ==
    /\ pb \in Builders
    /\ p_pc = "patches"
    /\ n_rects = 0
    /\ p_i = 0
    /\ rects = << >>
    /\ p_error = NoError

(***************************************************************************)
(* The cache key of get_signal as a function of the request, for keyword   *)
(* values of more than one type and for signal keys that hold a separator  *)
(***************************************************************************)
\* keyword values: the integers 1 and 2 and the string "1"
IntValue(n) == [type |-> "int", n |-> n, s |-> << >>]
StrValue(s) == [type |-> "str", n |-> 0, s |-> s]
KeyValues == {IntValue(1), IntValue(2), StrValue(<<"1">>)}

\* "{}".format(v): the decimal digits of an integer, a string as it is
Format(v) == IF v.type = "int" THEN <<Str(v.n)>> ELSE v.s

\* signal keys, one of them with the text of a formatted keyword in it
KeyTexts == {<<"adv">>, <<"val">>, <<"adv", "|", "a", "=", "1">>}
\* kwargs as written at the call site
KeyKwargs ==
    {<< >>} \cup {<< <<"a", v>> >> : v \in KeyValues}
        \cup {<< <<"a", IntValue(1)>>, <<"b", IntValue(1)>> >>,
              << <<"b", IntValue(1)>>, <<"a", IntValue(1)>> >>}
KeyRequests == [gen : {"g1", "g2"}, key : KeyTexts, kwargs : KeyKwargs]
NoRequest == [gen |-> None, key |-> << >>, kwargs |-> << >>]

\* lines 279-290 for the request r
RequestKey(r) ==
    LET sorted_kw == SortedNames(r.kwargs)
    IN  JoinKey(GenKey(r.gen), r.key,
                [i \in 1..Len(sorted_kw) |->
                    <<sorted_kw[i], "=">> \o Format(KwValue(r.kwargs, sorted_kw[i]))])

\* what the request asks for: the generator, the key and kwargs as a dict
Asked(r) == <<r.gen, r.key, KwAsDict(r.kwargs)>>

KeyFirst ==
    /\ kpc = "first"
    /\ \E r \in KeyRequests : kq1' = r /\ kk1' = RequestKey(r)
    /\ kpc' = "second"
    /\ UNCHANGED <<kq2, kk2, sigvars, ctxvars, trainvars, updvars, bankvars,
                   gridvars, lookupvars, patchvars, hookvars, meanvars>>

KeySecond ==
    /\ kpc = "second"
    /\ \E r \in KeyRequests : kq2' = r /\ kk2' = RequestKey(r)
    /\ kpc' = "done"
    /\ UNCHANGED <<kq1, kk1, sigvars, ctxvars, trainvars, updvars, bankvars,
                   gridvars, lookupvars, patchvars, hookvars, meanvars>>

KeyIdle ==
    /\ kq1 = NoRequest /\ kq2 = NoRequest
    /\ kk1 = << >> /\ kk2 = << >>
    /\ kpc = "first"

(***************************************************************************)
(* RLUpdater._evaluate, iteration by iteration, with the values recorded.  *)
(* The learners have distinct names and record one value each, so learner  *)
(* k writes the one key k.                                                 *)
(***************************************************************************)
EvalConfigs == [n : 0..MaxValRollouts, bs : 1..MaxValBatch, nl : 1..MaxLearners]

\* record[key] on a defaultdict(float)
RecordGet(rec, k) == IF k \in DOMAIN rec THEN rec[k] ELSE 0

\* lines 455-464: one iteration of `for it in range(n_iters)`, every
\* learner's evaluate(_batch_size, mode) and record[key] += _batch_size * v
EvaluateBatch ==
    /\ ev_pc = "loop" /\ ev_it < n_iters(ev_cfg.n, ev_cfg.bs)
    /\ LET size == IterBatchSize(ev_cfg.n, ev_cfg.bs, ev_it)
       IN  \E v \in [1..ev_cfg.nl -> 0..MaxMetric] :
             /\ ev_record' = [k \in 1..ev_cfg.nl |->
                                 RecordGet(ev_record, k) + size * v[k]]
             /\ ev_calls' = ev_calls \o
                    [k \in 1..ev_cfg.nl |->
                        [it |-> ev_it, learner |-> k, batch_size |-> size,
                         value |-> v[k]]]
    /\ ev_it' = ev_it + 1
    /\ UNCHANGED <<ev_cfg, ev_pc, ev_result, sigvars, ctxvars, trainvars,
                   updvars, bankvars, gridvars, lookupvars, patchvars,
                   hookvars, keyvars>>

\* lines 466-467: record = {k: v / n_rollouts for k, v in record.items()}
EvaluateMean ==
    /\ ev_pc = "loop" /\ ev_it >= n_iters(ev_cfg.n, ev_cfg.bs)
    /\ ev_result' = [k \in DOMAIN ev_record |->
                        [num |-> ev_record[k], den |-> ev_cfg.n]]
    /\ ev_pc' = "done"
    /\ UNCHANGED <<ev_cfg, ev_it, ev_record, ev_calls, sigvars, ctxvars,
                   trainvars, updvars, bankvars, gridvars, lookupvars,
                   patchvars, hookvars, keyvars>>

MeanIdle ==
    /\ ev_cfg = [n |-> 0, bs |-> 1, nl |-> 1]
    /\ ev_it = 0
    /\ ev_record = << >>
    /\ ev_calls = << >>
    /\ ev_pc = "loop"
    /\ ev_result = << >>

MeanInit ==
    /\ ev_cfg \in EvalConfigs
    /\ ev_it = 0
    /\ ev_record = << >>
    /\ ev_calls = << >>
    /\ ev_pc = "loop"
    /\ ev_result = << >>

HookIdle == losses = << >>

MoreIdle == LookupIdle /\ PatchIdle /\ HookIdle /\ KeyIdle /\ MeanIdle

OtherIdle == UpdIdle /\ BankIdle /\ GridIdle /\ MoreIdle


(***************************************************************************)
(* TrainingLoop (dps/train.py), EarlyStopHook (dps/utils.py)               *)
(***************************************************************************)
\* EarlyStopHook._best_value = None
NoValue == -1

\* int(np.ceil(a / b))
CeilDiv(a, b) == (a + b - 1) \div b

\* batches_per_epoch and self.max_epochs
batches_per_epoch == CeilDiv(NTrain, BatchSize)
max_epochs == CeilDiv(MaxSteps, batches_per_epoch)

\* Updater.update: self._n_experiences += batch_size
UpdateKeepsCount(n) == n
AfterUpdate(n) == n + BatchSize

\* n_epochs >= self.max_epochs, with n_epochs = n_experiences / cfg.n_train
MaxEpochsReached(n) == n >= max_epochs * NTrain

\* evaluate, display and the periodic checkpoint condition
evaluate(g) == g % EvalStep = 0
display(g) == g % DisplayStep = 0
checkpoint(g) == CheckpointStep > 0 /\ g % CheckpointStep = 0

\* the variant of TimeUp that never ends the run
TimeNeverUp(r) == FALSE

\* `if self.time_remaining <= 1:` at the top of the stage loop
TimeUp(r) == r <= 1

\* the variant of ShouldAdvance that ignores threshold_reached
AdvanceOnPowerThroughOnly(tr, pt) == pt

\* `if threshold_reached or cfg.power_through:`
ShouldAdvance(tr, pt) == tr \/ pt

\* exp_dir.path_for('best_stage={}') and path_for('model_stage={}'), the
\* latter with the step updater.save is given
BestFile(st) == <<"best_stage", st>>
ModelFile(st, step) == <<"model_stage", st, step>>

\* the variant of AfterPeriodicSave that records the periodic checkpoint
PeriodicSaveRecorded(bp, path) == path

\* line 219: the path updater.save returns is dropped, best_path stays
AfterPeriodicSave(bp, path) == bp

\* updater.save(path): the parameter values written under the path
Save(d, path, ckpt) == [x \in DOMAIN d \cup {path} |-> IF x = path THEN ckpt ELSE d[x]]

Checkpoint(st, p, loss) == [stage |-> st, ver |-> p.ver, born |-> p.born, loss |-> loss]
Fresh == [stage |-> 0, ver |-> 0, born |-> 0, loss |-> 0]

\* EarlyStopHook.__init__
EsInit == [best_value |-> NoValue, best_step |-> NoValue, step |-> 0,
           early_stopped |-> FALSE]

\* the variant of EsCheck that takes a loss equal to the best as a new best
EsCheckOnTie(h, loss) ==
    LET nb == h.best_value = NoValue \/ loss <= h.best_value
        bv == IF nb THEN loss ELSE h.best_value
        bs == IF nb THEN h.step ELSE h.best_step
        st == h.step - bs > patience
    IN  [best_value |-> bv, best_step |-> bs, step |-> h.step + 1,
         early_stopped |-> h.early_stopped \/ st]

\* EarlyStopHook.check(validation_loss): the hook afterwards
EsCheck(h, loss) ==
    LET nb == h.best_value = NoValue \/ loss < h.best_value
        bv == IF nb THEN loss ELSE h.best_value
        bs == IF nb THEN h.step ELSE h.best_step
        st == h.step - bs > patience
    IN  [best_value |-> bv, best_step |-> bs, step |-> h.step + 1,
         early_stopped |-> h.early_stopped \/ st]
\* ... and the pair (new_best, stop) it returns
EsNewBest(h, loss) == h.best_value = NoValue \/ loss < h.best_value
\* the variant of EsStop that stops once `patience` checks have gone by
EsStopAtPatience(h, loss) == h.step - (IF EsNewBest(h, loss) THEN h.step ELSE h.best_step) >= patience

EsStop(h, loss) == h.step - (IF EsNewBest(h, loss) THEN h.step ELSE h.best_step) > patience

\* EarlyStopHook.end_stage: the stage's record is appended to the history
\* and the hook starts afresh
EsEndStage(h) == EsInit
EsRecord(h) == [best_value |-> h.best_value, best_step |-> h.best_step]

\* next(self.curriculum): the updater of stage st starts from the best
\* checkpoint of the stage before it, when there is one
CurriculumLoad(d, st) ==
    IF st > 1 /\ BestFile(st - 1) \in DOMAIN d THEN d[BestFile(st - 1)] ELSE Fresh

StagePcs == {"stage_top", "update", "check", "save_best", "decide", "ckpt"}
TimeLimit == "Time limit reached."

\* the stage is left (lines 108-115): the limiter is left, which sets
\* ran_out when the budget has expired, and `if limiter.ran_out:` overrides
\* the reason; returned tells whether _run_stage returned (and assigned)
LeaveStage(how, tr, r) ==
    /\ ran_out' = (remaining = 0)
    /\ reason' = IF remaining = 0 THEN TimeLimit ELSE r
    /\ threshold_reached' = tr
    /\ ended' = Append(ended, [how |-> how, reached |-> (how = "returned" /\ tr),
                               reason |-> reason', stage |-> stage,
                               steps |-> local_step, checks |-> es.step])
    /\ tpc' = "restore"

\* line 70, time left: on into the loop body
EnterLoop ==
    /\ tpc = "core_top" /\ ~TimeUp(remaining)
    /\ tpc' = "next_stage"
    /\ UNCHANGED <<power_through, patience, stage, global_step,
                   threshold_reached, reason, best_path, cur_next,
                   n_experiences, params, loaded, disk, local_step, val_loss,
                   new_best, stop, es, history, remaining, ran_out, error,
                   result, ended, exp_at, sigvars, ctxvars,
                   othervars>>

\* lines 70-72: "Time limit exceeded.", break
TimeLimitExceeded ==
    /\ tpc = "core_top" /\ TimeUp(remaining)
    /\ tpc' = "finish"
    /\ UNCHANGED <<power_through, patience, stage, global_step,
                   threshold_reached, reason, best_path, cur_next,
                   n_experiences, params, loaded, disk, local_step, val_loss,
                   new_best, stop, es, history, remaining, ran_out, error,
                   result, ended, exp_at, sigvars, ctxvars,
                   othervars>>

\* lines 91-106: next(self.curriculum) yields the stage's updater
CurriculumNext ==
    /\ tpc = "next_stage" /\ cur_next < NStages
    /\ cur_next' = cur_next + 1
    /\ n_experiences' = 0
    /\ loaded' = CurriculumLoad(disk, cur_next + 1)
    /\ params' = [ver |-> loaded'.ver, born |-> loaded'.born]
    /\ tpc' = "arm"
    /\ UNCHANGED <<power_through, patience, stage, global_step,
                   threshold_reached, reason, best_path, disk, local_step,
                   val_loss, new_best, stop, es, history, remaining, ran_out,
                   error, result, ended, exp_at, sigvars, ctxvars,
                   othervars>>

\* lines 94-96: StopIteration, "Curriculum complete", break
CurriculumComplete ==
    /\ tpc = "next_stage" /\ cur_next >= NStages
    /\ tpc' = "finish"
    /\ UNCHANGED <<power_through, patience, stage, global_step,
                   threshold_reached, reason, best_path, cur_next,
                   n_experiences, params, loaded, disk, local_step, val_loss,
                   new_best, stop, es, history, remaining, ran_out, error,
                   result, ended, exp_at, sigvars, ctxvars,
                   othervars>>

\* line 108 and lines 158-162: the limiter is entered, _run_stage begins
StartStage ==
    /\ tpc = "arm"
    /\ ran_out' = FALSE
    /\ local_step' = 0
    /\ tpc' = "stage_top"
    /\ UNCHANGED <<power_through, patience, stage, global_step,
                   threshold_reached, reason, best_path, cur_next,
                   n_experiences, params, loaded, disk, val_loss, new_best,
                   stop, es, history, remaining, error, result, ended, exp_at,
                   sigvars, ctxvars,
                   othervars>>

\* time passes
Tick ==
    /\ tpc \in {"next_stage", "arm", "stage_top", "check"}
    /\ remaining > 0
    /\ remaining' = remaining - 1
    /\ exp_at' = IF remaining = 1
                 THEN [at |-> tpc, stage |-> cur_next, steps |-> local_step,
                       checks |-> es.step]
                 ELSE exp_at
    /\ UNCHANGED <<tpc, power_through, patience, stage, global_step,
                   threshold_reached, reason, best_path, cur_next,
                   n_experiences, params, loaded, disk, local_step, val_loss,
                   new_best, stop, es, history, ran_out, error, result, ended,
                   sigvars, ctxvars,
                   othervars>>

\* lines 167-170: the budget has not expired; max epochs reached ends the
\* stage, otherwise the step begins
StageTop ==
    /\ tpc = "stage_top" /\ remaining > 0
    /\ IF MaxEpochsReached(n_experiences)
       THEN /\ LeaveStage("returned", FALSE, "Maximum number of steps reached.")
       ELSE /\ tpc' = "update"
            /\ UNCHANGED <<ran_out, reason, threshold_reached, ended>>
    /\ UNCHANGED <<power_through, patience, stage, global_step, best_path,
                   cur_next, n_experiences, params, loaded, disk, local_step,
                   val_loss, new_best, stop, es, history, remaining, error,
                   result, exp_at, sigvars, ctxvars,
                   othervars>>

\* the budget has expired: between two steps the limiter ends the stage;
\* _run_stage does not return, so line 110 assigns nothing
TimeLimitAbort ==
    /\ tpc = "stage_top" /\ remaining = 0
    /\ LeaveStage("timeout", threshold_reached, reason)
    /\ UNCHANGED <<power_through, patience, stage, global_step, best_path,
                   cur_next, n_experiences, params, loaded, disk, local_step,
                   val_loss, new_best, stop, es, history, remaining, error,
                   result, exp_at, sigvars, ctxvars,
                   othervars>>

\* lines 172-178 and 214: updater.update(cfg.batch_size, ...)
Update ==
    /\ tpc = "update"
    /\ n_experiences' = AfterUpdate(n_experiences)
    /\ params' = [ver |-> params.ver + 1, born |-> stage]
    /\ IF evaluate(global_step) \/ display(global_step)
       THEN /\ val_loss' \in 0..MaxLoss
            /\ tpc' = "check"
       ELSE /\ tpc' = "ckpt"
            /\ UNCHANGED val_loss
    /\ UNCHANGED <<power_through, patience, stage, global_step,
                   threshold_reached, reason, best_path, cur_next, loaded,
                   disk, local_step, new_best, stop, es, history, remaining,
                   ran_out, error, result, ended, exp_at, sigvars, ctxvars,
                   othervars>>

\* line 195: new_best, stop = self.curriculum.check(val_loss, ...)
Check ==
    /\ tpc = "check"
    /\ new_best' = EsNewBest(es, val_loss)
    /\ stop' = EsStop(es, val_loss)
    /\ es' = EsCheck(es, val_loss)
    /\ tpc' = IF new_best' THEN "save_best" ELSE "decide"
    /\ UNCHANGED <<power_through, patience, stage, global_step,
                   threshold_reached, reason, best_path, cur_next,
                   n_experiences, params, loaded, disk, local_step, val_loss,
                   history, remaining, ran_out, error, result, ended, exp_at,
                   sigvars, ctxvars,
                   othervars>>

\* lines 197-202: self.best_path = updater.save(checkpoint_file)
SaveBest ==
    /\ tpc = "save_best"
    /\ disk' = Save(disk, BestFile(stage), Checkpoint(stage, params, val_loss))
    /\ best_path' = BestFile(stage)
    /\ tpc' = "decide"
    /\ UNCHANGED <<power_through, patience, stage, global_step,
                   threshold_reached, reason, cur_next, n_experiences, params,
                   loaded, local_step, val_loss, new_best, stop, es, history,
                   remaining, ran_out, error, result, ended, exp_at, sigvars,
                   ctxvars, othervars>>

\* updater.save raises (lines 202, 219): the exception is not a
\* KeyboardInterrupt and leaves TrainingLoop.run
SaveFails ==
    /\ tpc = "save_best" \/ (tpc = "ckpt" /\ checkpoint(global_step))
    /\ error' = "SaveError"
    /\ tpc' = "crashed"
    /\ UNCHANGED <<power_through, patience, stage, global_step,
                   threshold_reached, reason, best_path, cur_next,
                   n_experiences, params, loaded, disk, local_step, val_loss,
                   new_best, stop, es, history, remaining, ran_out, result,
                   ended, exp_at, sigvars, ctxvars,
                   othervars>>

\* lines 204-211: early stop, then the loss threshold
Decide ==
    /\ tpc = "decide"
    /\ IF stop
       THEN LeaveStage("returned", FALSE, "Early stopping triggered.")
       ELSE IF val_loss < Threshold
       THEN LeaveStage("returned", TRUE, "Validation loss threshold reached.")
       ELSE /\ tpc' = "ckpt"
            /\ UNCHANGED <<ran_out, reason, threshold_reached, ended>>
    /\ UNCHANGED <<power_through, patience, stage, global_step, best_path,
                   cur_next, n_experiences, params, loaded, disk, local_step,
                   val_loss, new_best, stop, es, history, remaining, error,
                   result, exp_at, sigvars, ctxvars,
                   othervars>>

\* lines 216-222: the periodic checkpoint, local_step += 1, global_step += 1
EndStep ==
    /\ tpc = "ckpt"
    /\ IF checkpoint(global_step)
       THEN /\ disk' = Save(disk, ModelFile(stage, local_step),
                            Checkpoint(stage, params, val_loss))
            /\ best_path' = AfterPeriodicSave(best_path, ModelFile(stage, local_step))
       ELSE UNCHANGED <<disk, best_path>>
    /\ local_step' = local_step + 1
    /\ global_step' = global_step + 1
    /\ tpc' = "stage_top"
    /\ UNCHANGED <<power_through, patience, stage, threshold_reached, reason,
                   cur_next, n_experiences, params, loaded, val_loss, new_best,
                   stop, es, history, remaining, ran_out, error, result, ended,
                   exp_at, sigvars, ctxvars,
                   othervars>>

\* lines 111-112: KeyboardInterrupt anywhere inside _run_stage
Interrupt ==
    /\ tpc \in StagePcs
    /\ LeaveStage("interrupt", threshold_reached, "User interrupt.")
    /\ UNCHANGED <<power_through, patience, stage, global_step, best_path,
                   cur_next, n_experiences, params, loaded, disk, local_step,
                   val_loss, new_best, stop, es, history, remaining, error,
                   result, exp_at, sigvars, ctxvars,
                   othervars>>

\* lines 120-124: "Loading best hypothesis ... from file self.best_path",
\* updater.restore(self.best_path)
Restore ==
    /\ tpc = "restore"
    /\ IF best_path = << >>
       THEN /\ error' = "AttributeError"
            /\ tpc' = "crashed"
            /\ UNCHANGED params
       ELSE /\ params' = [ver |-> disk[best_path].ver, born |-> disk[best_path].born]
            /\ tpc' = "end_stage"
            /\ UNCHANGED error
    /\ UNCHANGED <<power_through, patience, stage, global_step,
                   threshold_reached, reason, best_path, cur_next,
                   n_experiences, loaded, disk, local_step, val_loss, new_best,
                   stop, es, history, remaining, ran_out, result, ended,
                   exp_at, sigvars, ctxvars,
                   othervars>>

\* lines 126-133: self.curriculum.end_stage(), then advance or terminate
EndStage ==
    /\ tpc = "end_stage"
    /\ history' = Append(history, EsRecord(es))
    /\ es' = EsEndStage(es)
    /\ IF ShouldAdvance(threshold_reached, power_through)
       THEN stage' = stage + 1 /\ tpc' = "core_top"
       ELSE stage' = stage /\ tpc' = "finish"
    /\ UNCHANGED <<power_through, patience, global_step, threshold_reached,
                   reason, best_path, cur_next, n_experiences, params, loaded,
                   disk, local_step, val_loss, new_best, stop, remaining,
                   ran_out, error, result, ended, exp_at, sigvars, ctxvars,
                   othervars>>

\* lines 135-143: the result with the history is returned
Finish ==
    /\ tpc = "finish"
    /\ result' = history
    /\ tpc' = "returned"
    /\ UNCHANGED <<power_through, patience, stage, global_step,
                   threshold_reached, reason, best_path, cur_next,
                   n_experiences, params, loaded, disk, local_step, val_loss,
                   new_best, stop, es, history, remaining, ran_out, error,
                   ended, exp_at, sigvars, ctxvars,
                   othervars>>

\* the state at line 69, before the first pass of the stage loop
TrainStart ==
    /\ tpc = "core_top"
    /\ stage = 1
    /\ global_step = 0
    /\ threshold_reached = TRUE
    /\ reason = "unset"
    /\ best_path = << >>
    /\ cur_next = 0
    /\ n_experiences = 0
    /\ params = [ver |-> 0, born |-> 0]
    /\ loaded = Fresh
    /\ disk = << >>
    /\ local_step = 0
    /\ val_loss = 1000000
    /\ new_best = FALSE
    /\ stop = FALSE
    /\ es = EsInit
    /\ history = << >>
    /\ remaining = 2
    /\ ran_out = FALSE
    /\ error = "none"
    /\ result = << >>
    /\ ended = << >>
    /\ exp_at = [at |-> "none", stage |-> 0, steps |-> 0, checks |-> 0]

TrainIdle == TrainStart /\ power_through = FALSE /\ patience = 0

\* hook.check(loss) on a hook of its own
HookCheck(loss) ==
    /\ Len(losses) < MaxChecks
    /\ new_best' = EsNewBest(es, loss)
    /\ stop' = EsStop(es, loss)
    /\ es' = EsCheck(es, loss)
    /\ losses' = Append(losses, loss)
    /\ UNCHANGED <<tpc, power_through, patience, stage, global_step,
                   threshold_reached, reason, best_path, cur_next,
                   n_experiences, params, loaded, disk, local_step, val_loss,
                   history, remaining, ran_out, error, result, ended, exp_at,
                   sigvars, ctxvars, updvars, bankvars, gridvars, lookupvars,
                   patchvars, keyvars, meanvars>>

InitTrain ==
    /\ SigInit
    /\ CtxIdle
    /\ OtherIdle
    /\ TrainStart
    /\ power_through \in BOOLEAN
    /\ patience \in 0..MaxPatience

NextTrain ==
    \/ EnterLoop
    \/ TimeLimitExceeded
    \/ CurriculumNext
    \/ CurriculumComplete
    \/ StartStage
    \/ Tick
    \/ StageTop
    \/ TimeLimitAbort
    \/ Update
    \/ Check
    \/ SaveBest
    \/ SaveFails
    \/ Decide
    \/ EndStep
    \/ Interrupt
    \/ Restore
    \/ EndStage
    \/ Finish

SpecTrain == InitTrain /\ [][NextTrain]_vars

\* run() executes its statements one after another and none of them waits:
\* as long as a step of the loop is possible, one is taken
SpecTrainFair == InitTrain /\ [][NextTrain]_vars /\ WF_vars(NextTrain)

(***************************************************************************)
(* The specifications of the signal cache and of the context operations   *)
(***************************************************************************)
InitSignal == SigInit /\ CtxIdle /\ TrainIdle /\ OtherIdle
NextSignal == GetSignalMemoized \/ GetSignalFresh \/ GetSignalOptions \/ GetSignalCore
SpecSignal == InitSignal /\ [][NextSignal]_vars

InitCtx ==
    /\ SigInit
    /\ TrainIdle
    /\ OtherIdle
    /\ active_context = None
    /\ open_blocks = << >>
    /\ mu = [c \in Contexts |-> FALSE]
    /\ optimizer = [c \in Contexts |-> FALSE]
    /\ replay_buffer = [c \in Contexts |-> [present |-> FALSE, held |-> {}]]
    /\ on_policy_updates \in BOOLEAN
    /\ replay_updates_per_sample \in 0..MaxReplayUpdates
    /\ upc = "idle"
    /\ ucur = None
    /\ rollouts = 0
    /\ loop_i = 0
    /\ trace = << >>
    /\ n_updates = 0
    /\ last_op = Op("none", None, "ok")
    /\ pi = [c \in Contexts |-> FALSE]
    /\ etrace = << >>
    /\ n_evals = 0
    /\ RegInit

NextCtx ==
    \/ \E c \in Contexts : set_behaviour_policy(c)
    \/ \E c \in Contexts : set_optimizer(c)
    \/ \E c \in Contexts : set_replay_buffer(c)
    \/ \E c \in Contexts : WithEnter(c)
    \/ WithExit
    \/ \E c \in Contexts : set_validation_policy(c)
    \/ \E c \in Contexts : UpdateCall(c)
    \/ \E c \in Contexts : EvaluateCall(c)
    \/ EvalRollouts
    \/ EvalRecord
    \/ EvaluateReturn
    \/ DoRollouts
    \/ OnPolicy
    \/ AddRollouts
    \/ SampleBatch
    \/ OffPolicy
    \/ LoopEnd
    \/ UpdateReturn

SpecCtx == InitCtx /\ [][NextCtx]_vars

\* the context operations together with build_graph and with the exceptions
\* that the statements inside an operation may raise
NextSlot ==
    \/ NextCtx
    \/ \E c \in Contexts : BuildGraphCall(c)
    \/ BuildGraphReturn
    \/ BodyRaises

SpecSlot == InitCtx /\ [][NextSlot]_vars

(***************************************************************************)
(* The specification of the registration of RLObjects                      *)
(***************************************************************************)
InitReg == SigInit /\ CtxIdle /\ TrainIdle /\ OtherIdle

NextReg ==
    \/ \E c \in Contexts : WithEnter(c)
    \/ WithExit
    \/ \E cls \in Classes : NewRLObject(cls)

SpecReg == InitReg /\ [][NextReg]_vars

(***************************************************************************)
(* The specification of RLUpdater                                          *)
(***************************************************************************)
InitUpd == SigInit /\ CtxIdle /\ TrainIdle /\ UpdIdle /\ BankIdle /\ GridIdle
    /\ MoreIdle

NextUpd == UpdaterInit \/ BuildGraph \/ UpdaterUpdate \/ UpdaterEvaluate

SpecUpd == InitUpd /\ [][NextUpd]_vars

(***************************************************************************)
(* The specification of RegisterSpec.as_obs and from_obs                   *)
(***************************************************************************)
InitBank == SigInit /\ CtxIdle /\ TrainIdle /\ UpdIdle /\ BankInit /\ GridIdle
    /\ MoreIdle

NextBank ==
    \/ \E vo \in BOOLEAN : AsObs(vo)
    \/ FromObs
    \/ AsObsAgain

SpecBank == InitBank /\ [][NextBank]_vars

(***************************************************************************)
(* The specification of build_step of the grid environments                *)
(***************************************************************************)
InitGrid == SigInit /\ CtxIdle /\ TrainIdle /\ UpdIdle /\ BankIdle /\ GridInit
    /\ MoreIdle

NextGrid == \E act \in GridActions(grid_env) : GridStep(act)

SpecGrid == InitGrid /\ [][NextGrid]_vars

(***************************************************************************)
(* The specification of the lookup of registers                            *)
(***************************************************************************)
InitLookup ==
    SigInit /\ CtxIdle /\ TrainIdle /\ UpdIdle /\ BankIdle /\ GridIdle
    /\ LookupInit /\ PatchIdle /\ HookIdle /\ KeyIdle /\ MeanIdle

NextLookup == GetRegisterValues

SpecLookup == InitLookup /\ [][NextLookup]_vars

(***************************************************************************)
(* The specification of the placing of patches: every step that is         *)
(* possible is eventually taken                                            *)
(***************************************************************************)
InitPatches ==
    SigInit /\ CtxIdle /\ TrainIdle /\ UpdIdle /\ BankIdle /\ GridIdle
    /\ LookupIdle /\ PatchInit /\ HookIdle /\ KeyIdle /\ MeanIdle

NextPatches ==
    \/ SamplePatches
    \/ SamplePatchLocations
    \/ AfterPatches
    \/ SampleDistractors
    \/ SampleDistractorLocations

SpecPatches == InitPatches /\ [][NextPatches]_vars /\ WF_vars(NextPatches)

(***************************************************************************)
(* The specification of an EarlyStopHook that is checked with any losses   *)
(***************************************************************************)
InitKey ==
    SigInit /\ CtxIdle /\ TrainIdle /\ UpdIdle /\ BankIdle /\ GridIdle
    /\ LookupIdle /\ PatchIdle /\ HookIdle /\ KeyIdle /\ MeanIdle

NextKey == KeyFirst \/ KeySecond

SpecKey == InitKey /\ [][NextKey]_vars

InitMean ==
    SigInit /\ CtxIdle /\ TrainIdle /\ UpdIdle /\ BankIdle /\ GridIdle
    /\ LookupIdle /\ PatchIdle /\ HookIdle /\ KeyIdle /\ MeanInit

NextMean == EvaluateBatch \/ EvaluateMean

SpecMean == InitMean /\ [][NextMean]_vars

InitHook ==
    /\ SigInit
    /\ CtxIdle
    /\ OtherIdle
    /\ TrainStart
    /\ power_through = FALSE
    /\ patience \in 0..MaxPatience

NextHook == \E loss \in 0..MaxLoss : HookCheck(loss)

SpecHook == InitHook /\ [][NextHook]_vars

(***************************************************************************)
(* C1                                                                      *)
(***************************************************************************)
\* C1 as stated: over memoized get_signal requests, generate_signal is
\* invoked at most once for each distinct (generator, key, kwargs)
\* combination.
C1_InvokedAtMostOnce == \A c \in Combos : gen_calls[c] <= 1

\* C1 amended: over memoized get_signal requests, generate_signal builds a
\* tensor at most once for each distinct (generator, key, kwargs)
\* combination, and it is invoked a second time only for a combination for
\* which it has never returned a tensor (it returned None).
C1_BuiltAtMostOnce ==
    \A c \in Combos : gen_built[c] <= 1 /\ (gen_calls[c] > 1 => gen_built[c] = 0)

\* a memoized request was served from the cache, after the one build
C1_Witness ==
    /\ sig_ret.memoize /\ sig_ret.combo \in Combos
    /\ ~sig_ret.generated /\ sig_ret.raised = "no"
    /\ gen_built[sig_ret.combo] = 1 /\ gen_calls[sig_ret.combo] = 1

(***************************************************************************)
(* C2                                                                      *)
(***************************************************************************)
C2_Single ==
    /\ Len(open_blocks) <= 1
    /\ active_context = None <=> open_blocks = << >>
    /\ open_blocks # << >> => active_context = open_blocks[1]

C2_Step ==
    /\ ( /\ active_context # None
         /\ last_op' # last_op
         /\ last_op'.op \in {"enter", "update"}
         /\ last_op'.result \in {"raised", "entered"} )
       => ( /\ last_op'.result = "raised"
            /\ active_context' = active_context
            /\ open_blocks' = open_blocks )
    /\ (last_op' # last_op /\ last_op'.result \in {"exited", "returned"})
       => active_context' = None

\* C2: at most one RLContext is active at any moment: only one `with` block
\* is ever open and its context is the active one; __enter__ attempted
\* while a context (another or the same) is active raises and leaves the
\* active context unchanged; __exit__ leaves no context active.
C2_OneActiveContext == [](C2_Single) /\ [][C2_Step]_vars

\* __enter__ of the already active context has just raised
C2_Witness ==
    /\ last_op.op = "enter" /\ last_op.result = "raised"
    /\ active_context = last_op.ctx

(***************************************************************************)
(* C3                                                                      *)
(***************************************************************************)
Positions(P(_)) == {i \in DOMAIN trace : P(trace[i])}
IsRollout(e) == e.ev = "do_rollouts"
IsOnPolicy(e) == e.mode = "train" /\ e.ev \notin {"do_rollouts", "add_rollouts"}
IsAdd(e) == e.ev = "add_rollouts"
IsOffPolicy(e) == e.mode = "off_policy"
AllBefore(S, T) == \A i \in S, j \in T : i < j

\* C3: within one update call the rollouts are collected first, then the
\* on-policy step runs to its end (pre hooks, update, post hooks), then the
\* rollouts are added to the replay buffer, and only then is an off-policy
\* batch sampled or an off-policy update run; the buffer holds the rollouts
\* just collected whenever a batch is sampled.
C3_UpdateOrder ==
    LET R == Positions(IsRollout)
        On == Positions(IsOnPolicy)
        Add == Positions(IsAdd)
        Off == Positions(IsOffPolicy)
    IN  /\ AllBefore(R, On \cup Add \cup Off)
        /\ AllBefore(On, Add \cup Off)
        /\ AllBefore(Add, Off)
        /\ Off # {} => Add # {}
        /\ Add # {} => Cardinality(On) = 3
        /\ On # {} => R # {}
        /\ \A j \in Off : trace[j].ev = "get_batch" => rollouts \in trace[j].held

\* an update call has run its on-policy update and then an off-policy one
C3_Witness ==
    /\ \E i \in DOMAIN trace : trace[i].ev = "optimizer.update" /\ trace[i].mode = "train"
    /\ \E i \in DOMAIN trace : trace[i].ev = "optimizer.update" /\ trace[i].mode = "off_policy"

(***************************************************************************)
(* C4                                                                      *)
(***************************************************************************)
Count(ev, mode) ==
    Cardinality({i \in DOMAIN trace : trace[i].ev = ev /\ trace[i].mode = mode})

C4_Counts ==
    upc = "return" =>
        LET buffered == replay_buffer[ucur].present
            updating == ~buffered \/ on_policy_updates
            n_off == Count("optimizer.update", "off_policy")
        IN  /\ Count("do_rollouts", "train") = 1
            /\ Count("add_rollouts", "train") = IF buffered THEN 1 ELSE 0
            /\ Count("optimizer.update", "train") = IF updating THEN 1 ELSE 0
            /\ Count("sess.run", "train") = IF updating THEN 0 ELSE 1
            /\ n_off \in 0..replay_updates_per_sample
            /\ ~buffered => n_off = 0 /\ Count("get_batch", "off_policy") = 0
            /\ (buffered /\ \A i \in DOMAIN trace : trace[i].ev = "get_batch" => trace[i].batch # 0)
               => n_off = replay_updates_per_sample

C4_BufferFrame ==
    \A c \in Contexts :
        replay_buffer'[c].held # replay_buffer[c].held =>
            /\ upc = "add_rollouts" /\ ucur = c
            /\ replay_buffer'[c].held = replay_buffer[c].held \cup {rollouts}

\* C4: an update call that reaches its return has collected exactly one
\* rollout batch, added it to the replay buffer exactly once if a buffer is
\* set and never otherwise, run exactly one on-policy gradient update, or,
\* with a buffer set and on_policy_updates false, one evaluation instead,
\* and run between 0 and replay_updates_per_sample off-policy updates,
\* exactly replay_updates_per_sample if every get_batch yielded a batch; the
\* contents of a replay buffer change only by add_rollouts of the running
\* update.
C4_UpdateCounts == [](C4_Counts) /\ [][C4_BufferFrame]_vars

\* an update with on-policy updates disabled returns after
\* replay_updates_per_sample > 0 off-policy updates
C4_Witness ==
    /\ upc = "return" /\ replay_buffer[ucur].present /\ ~on_policy_updates
    /\ replay_updates_per_sample > 0
    /\ Count("optimizer.update", "off_policy") = replay_updates_per_sample

(***************************************************************************)
(* C5                                                                      *)
(***************************************************************************)
\* the advance-or-halt decision of line 128 has been taken for ended[k]
Decided(k) == k < Len(ended) \/ tpc \in {"core_top", "next_stage", "finish", "returned"}

\* C5: after a stage ends the loop advances if and only if that stage
\* reached the loss threshold or power_through is set: a further stage is
\* begun only after a stage that reached the threshold (or under
\* power_through), and such a stage is followed by the advance.
C5_AdvanceIff ==
    \A k \in DOMAIN ended :
        /\ cur_next > ended[k].stage => (ended[k].reached \/ power_through)
        /\ (Decided(k) /\ (ended[k].reached \/ power_through)) => stage > ended[k].stage

C7_Priority ==
    tpc \in {"restore", "end_stage"} =>
        LET e == ended[Len(ended)]
        IN  /\ ran_out => reason = TimeLimit
            /\ (~ran_out /\ e.how = "returned" /\ MaxEpochsReached(n_experiences)
                /\ tpc = "restore" /\ e.steps * BatchSize = n_experiences)
               => reason = "Maximum number of steps reached."
            /\ (~ran_out /\ e.how = "returned" /\ e.checks > 0 /\ stop)
               => reason = "Early stopping triggered."

C7_ThresholdOnlyWhenWon ==
    tpc \in {"restore", "end_stage"} =>
        (threshold_reached => reason = "Validation loss threshold reached.")

\* C7: the stop reason follows the priority time limit > max epochs >
\* early stop > loss threshold, and threshold_reached is true only when the
\* loss threshold is the reported reason.
C7_StopReason == C7_Priority /\ C7_ThresholdOnlyWhenWon

(***************************************************************************)
(* C8                                                                      *)
(***************************************************************************)
C8_Step ==
    best_path' # best_path =>
        /\ tpc = "save_best" /\ new_best /\ tpc' = "decide"
        /\ best_path' = BestFile(stage)
        /\ best_path' \in DOMAIN disk'
        /\ disk'[best_path'] = Checkpoint(stage, params, val_loss)

\* C8: best_path changes only in the step in which updater.save of a new
\* best completes, and then to the path of the file just written; a save
\* that does not complete and a periodic checkpoint leave it unchanged.
C8_BestPathTransactional == [][C8_Step]_vars

\* the save of a new best of stage 2 failed: best_path is still stage 1's
C8_Witness ==
    /\ tpc = "crashed" /\ error = "SaveError"
    /\ stage = 2 /\ es.step > 0 /\ new_best
    /\ best_path = BestFile(1)

(***************************************************************************)
(* C9                                                                      *)
(***************************************************************************)
\* C9: a KeyboardInterrupt at any point of a stage ends the stage with the
\* reason "User interrupt." (unless the time limit overrides it) and no
\* exception leaves TrainingLoop.run.
C9_InterruptGraceful ==
    \A k \in DOMAIN ended :
        ended[k].how = "interrupt" =>
            /\ ~ran_out => ended[k].reason = "User interrupt."
            /\ ~(k = Len(ended) /\ tpc = "crashed")

(***************************************************************************)
(* C10                                                                     *)
(***************************************************************************)
\* the budget expired during a stage, with a step in flight or between two
\* steps
C10_Expired ==
    \/ exp_at.at = "check"
    \/ exp_at.at = "stage_top" /\ exp_at.steps >= 1

DefaultRequest(r) ==
    r.combo \in Combos /\ r.memoize /\ ~r.gradient /\ r.masked /\ r.raised = "no"

\* the second of two such requests for one combination returns the tensor
\* object the first returned
C11_Identical ==
    (n_requests' # n_requests /\ n_requests > 0
     /\ DefaultRequest(sig_ret) /\ DefaultRequest(sig_ret')
     /\ sig_ret'.combo = sig_ret.combo)
        => sig_ret'.returned = sig_ret.returned

\* a request with memoize=False builds its signal and leaves _signals alone
C11_FreshStep ==
    (n_requests' # n_requests /\ ~sig_ret'.memoize /\ sig_ret'.combo \in Combos)
        => (signals' = signals /\ sig_ret'.generated)

\* C11: two get_signal calls for the same key and generator (and keyword
\* arguments), memoize left at its default, return the identical tensor
\* object, and a call with memoize=False neither reads nor writes the cache.
C11_SameTensorObject == [][C11_Identical /\ C11_FreshStep]_vars

(***************************************************************************)
(* C12                                                                     *)
(***************************************************************************)
\* the step is a call of op on a context for which something the call
\* needs has not been set
C12_CalledUnset ==
    /\ last_op' # last_op
    /\ \/ last_op'.op = "update" /\ (~mu[last_op'.ctx] \/ ~optimizer[last_op'.ctx])
       \/ last_op'.op = "evaluate" /\ ~pi[last_op'.ctx]

\* the error names a setter that has not been called
C12_NamesMissingSetter ==
    LET c == last_op'.ctx
    IN  \/ last_op'.op = "update" /\ last_op'.names = "set_behaviour_policy" /\ ~mu[c]
        \/ last_op'.op = "update" /\ last_op'.names = "set_optimizer" /\ ~optimizer[c]
        \/ last_op'.op = "evaluate" /\ last_op'.names = "set_validation_policy" /\ ~pi[c]

C12_Step ==
    C12_CalledUnset =>
        /\ C12_NamesMissingSetter
        /\ UNCHANGED <<active_context, open_blocks, replay_buffer, signals,
                       upc, trace, etrace, n_updates, n_evals>>

\* C12: update called before set_behaviour_policy and set_optimizer, and
\* evaluate called before set_validation_policy, raise an error that names
\* the missing setter, before any rollout is collected and with the active
\* context, the replay buffer and the signal cache unchanged.
C12_DescriptiveError == [][C12_Step]_vars

(***************************************************************************)
(* C13                                                                     *)
(***************************************************************************)
\* get_batch of the running (or last) update call has yielded no batch
NoBatch == \E i \in DOMAIN trace : trace[i].ev = "get_batch" /\ trace[i].batch = 0

C13_Skipped ==
    NoBatch =>
        /\ trace[Len(trace)].ev = "get_batch" /\ trace[Len(trace)].batch = 0
        /\ \A i \in DOMAIN trace : trace[i].ev = "optimizer.update" => trace[i].batch # 0
        /\ upc \notin {"do_rollouts", "on_policy", "add_rollouts", "loop", "off_policy"}
        /\ upc = "return" =>
            /\ rollouts \in replay_buffer[ucur].held
            /\ Count("pre_update", "train") + Count("pre_eval", "train") = 1
            /\ Count("optimizer.update", "train") = IF DoUpdate(ucur) THEN 1 ELSE 0
            /\ Count("post_update", "train") + Count("post_eval", "train") = 1

C13_Returns ==
    (NoBatch /\ upc = "return" /\ upc' # upc) =>
        /\ last_op' = Op("update", ucur, "returned")
        /\ replay_buffer' = replay_buffer
        /\ trace' = trace

\* C13: when get_batch yields no batch the update call raises nothing: no
\* off-policy update is run for it, the loop is left, the on-policy step
\* made before it stands as it was, the rollouts just collected are in the
\* buffer, and the call returns.
C13_NoBatchSkips == [](C13_Skipped) /\ [][C13_Returns]_vars

\* an update call has returned after its on-policy update and a get_batch
\* that yielded no batch
C13_Witness ==
    /\ NoBatch /\ upc = "idle"
    /\ last_op = Op("update", ucur, "returned")
    /\ Count("optimizer.update", "train") = 1
    /\ Count("optimizer.update", "off_policy") = 0
    /\ rollouts \in replay_buffer[ucur].held

(***************************************************************************)
(* C14                                                                     *)
(***************************************************************************)
EvalPcs == {"eval_rollouts", "eval_record", "eval_return"}

C14_OnlyEval ==
    /\ \A i \in DOMAIN etrace :
        etrace[i].ev \notin {"optimizer.update", "pre_update", "post_update",
                             "add_rollouts", "get_batch"}
    /\ upc = "eval_return" =>
        /\ [i \in DOMAIN etrace |-> etrace[i].ev] =
               <<"do_rollouts", "pre_eval", "sess.run", "post_eval">>
        /\ etrace[1].policy = "pi"
        /\ \A i \in 2..4 : etrace[i].batch = etrace[1].batch

C14_Frame ==
    (upc \in EvalPcs \/ upc' \in EvalPcs) =>
        /\ replay_buffer' = replay_buffer
        /\ trace' = trace
        /\ n_updates' = n_updates

\* C14: an evaluate call runs one batch of rollouts under the validation
\* policy, then the pre_eval hooks, the evaluation of the recorded values
\* and the post_eval hooks on that batch, and nothing else: no
\* optimizer.update, no pre_update or post_update hook, and the replay
\* buffer is neither added to nor sampled from nor changed.
C14_EvaluateNoUpdate == [](C14_OnlyEval) /\ [][C14_Frame]_vars

\* an evaluate call has returned on a context that has a replay buffer
\* holding rollouts and an optimizer set
C14_Witness ==
    /\ upc = "idle" /\ last_op = Op("evaluate", ucur, "returned")
    /\ Len(etrace) = 4
    /\ optimizer[ucur] /\ replay_buffer[ucur].present
    /\ replay_buffer[ucur].held # {}

(***************************************************************************)
(* C15                                                                     *)
(***************************************************************************)
\* the objects of `created` that satisfy P, in the order of instantiation
ObjectsWhere(P(_)) ==
    LET sel == SelectSeq(created, P) IN [i \in DOMAIN sel |-> sel[i].obj]

\* C15: an RLObject instantiated while a context is active is registered
\* with that context and no other: each context's rl_objects is the
\* sequence of the objects instantiated while it was active, each once and
\* in the order of instantiation, and its objective_fn_terms is the
\* subsequence of those that are ObjectiveFunctionTerms.
C15_Registered ==
    \A c \in Contexts :
        /\ rl_objects[c] = ObjectsWhere(LAMBDA o : o.ctx = c)
        /\ objective_fn_terms[c] =
               ObjectsWhere(LAMBDA o : o.ctx = c /\ o.cls = "ObjectiveFunctionTerm")

\* objects were instantiated under both contexts in turn, an
\* ObjectiveFunctionTerm among them
C15_Witness ==
    /\ Len(rl_objects["A"]) >= 1 /\ Len(rl_objects["B"]) >= 1
    /\ Len(created) = MaxObjects
    /\ Len(objective_fn_terms["B"]) >= 1
    /\ created[1].ctx = "B" /\ created[2].ctx = "A" /\ created[3].ctx = "B"

(***************************************************************************)
(* C16                                                                     *)
(***************************************************************************)
\* two of the learners share a name
SharedName(ls) == \E i, j \in DOMAIN ls : i # j /\ ls[i].name = ls[j].name

\* C16: the constructor of RLUpdater fails exactly when two of its
\* learners share a name, with a message that lists the names, and an
\* updater whose construction failed has built no graph and run no update
\* or evaluation.
C16_UniqueNamesEagerly ==
    /\ ustate = "AssertionError" <=> (learners # << >> /\ SharedName(learners))
    /\ ustate = "constructed" => ~SharedName(learners)
    /\ ustate = "AssertionError" =>
        /\ umessage = learner_names(learners)
        /\ ~graph_built /\ n_ucalls = 0 /\ ucalls = << >>
    /\ (graph_built \/ n_ucalls > 0) => ustate = "constructed"

\* the construction with two learners, both with the default name, failed
C16_Witness ==
    /\ ustate = "AssertionError" /\ Len(learners) = 2
    /\ learners[1].name = << >> /\ learners[2].name = << >>
    /\ umessage = << << >>, << >> >>

(***************************************************************************)
(* C17                                                                     *)
(***************************************************************************)
\* every learner is called, in the order of self.learners, once by _update
\* and once in every iteration by _evaluate
C17_FanOut ==
    n_ucalls > 0 =>
        /\ Len(ucalls) % Len(learners) = 0 /\ Len(ucalls) >= Len(learners)
        /\ \A j \in DOMAIN ucalls : ucalls[j].learner = ((j - 1) % Len(learners)) + 1
        /\ \A i \in DOMAIN learners : \E j \in DOMAIN uwrites : uwrites[j].learner = i

\* two writes into one merged record under one key are writes of the same
\* value of the same learner
SameSource(w1, w2) ==
    (w1.rec = w2.rec /\ w1.key = w2.key)
        => (w1.learner = w2.learner /\ w1.recorded = w2.recorded)

Colon(k) == \E i \in DOMAIN k : k[i] = ":"

\* C17 as stated: every value is stored under learner.name + ":" + key, and
\* no two different (learner, key) pairs are written to the same key of a
\* merged record.
C17_PrefixedKeys ==
    /\ C17_FanOut
    /\ \A j \in DOMAIN uwrites :
        uwrites[j].key = learners[uwrites[j].learner].name \o <<":">> \o uwrites[j].recorded
    /\ \A i, j \in DOMAIN uwrites : SameSource(uwrites[i], uwrites[j])

\* C17 amended: every value is stored under learner.name + ":" + key for a
\* learner with a name and under the key alone for the learner whose name
\* is empty, and no two different (learner, key) pairs whose keys contain
\* no ":" are written to the same key of a merged record.
C17_MergedKeys ==
    /\ C17_FanOut
    /\ \A j \in DOMAIN uwrites :
        LET name == learners[uwrites[j].learner].name
        IN  uwrites[j].key = IF name = << >> THEN uwrites[j].recorded
                             ELSE name \o <<":">> \o uwrites[j].recorded
    /\ \A i, j \in DOMAIN uwrites :
        (~Colon(uwrites[i].recorded) /\ ~Colon(uwrites[j].recorded))
            => SameSource(uwrites[i], uwrites[j])

\* _update has merged the records of an unnamed learner and of a learner
\* named "a", both recording "loss"
C17_Witness ==
    /\ n_ucalls = 1 /\ Len(learners) = 2
    /\ learners[1].name = << >> /\ learners[2].name = <<"a">>
    /\ <<"loss">> \in ureturn.train /\ <<"a", ":", "loss">> \in ureturn.train
    /\ \E j \in DOMAIN uwrites : uwrites[j].rec = "off_policy"

(***************************************************************************)
(* C18                                                                     *)
(***************************************************************************)
\* from_obs has been applied to as_obs(b), all registers included
C18_Unpacked == rpc \in {"unpacked", "packed again"} /\ ~visible_only

\* C18: for any RegisterSpec and any valid bank b, from_obs(as_obs(b)) is b
\* register by register, for visible and hidden registers alike, and so
\* as_obs(from_obs(as_obs(b))) is as_obs(b).
C18_RoundTrip ==
    /\ C18_Unpacked => unpacked = Returns(registers)
    /\ (rpc = "packed again" /\ ~visible_only) => obs2 = obs

(***************************************************************************)
(* C19                                                                     *)
(***************************************************************************)
\* the components of the action that are hot
HotNames(act) == {nm \in DOMAIN act : act[nm] = 1}

\* the registers, acc aside, that the single action nm gives from r
C19_Effect(env, img, r, nm) ==
    LET fx == IF nm = ">" THEN ClipInt(r.fovea_x + 1, 0, EnvShape[2] - 1)
              ELSE IF nm = "<" THEN ClipInt(r.fovea_x - 1, 0, EnvShape[2] - 1)
              ELSE r.fovea_x
        fy == IF nm = "v" THEN ClipInt(r.fovea_y + 1, 0, EnvShape[1] - 1)
              ELSE IF nm = "^" THEN ClipInt(r.fovea_y - 1, 0, EnvShape[1] - 1)
              ELSE r.fovea_y
        seen == nm = "update_salience" /\ env.salience_action
    IN [omniglot |-> r.omniglot,
        digit |-> IF nm = "classify_digit"
                  THEN classifier_head(img, r.glimpse, "digit") ELSE r.digit,
        op |-> IF nm = "classify_op"
               THEN classifier_head(img, r.glimpse, "op") ELSE r.op,
        fovea_x |-> fx,
        fovea_y |-> fy,
        prev_action |-> (CHOOSE i \in DOMAIN action_names(env) :
                            action_names(env)[i] = nm) - 1,
        salience |-> IF seen THEN <<r.fovea_y, r.fovea_x>> ELSE r.salience,
        glimpse |-> GlimpseAt(fy, fx),
        salience_input |->
            IF seen THEN <<r.fovea_y, r.fovea_x>> ELSE r.salience_input]

\* the values of acc that the single action nm gives from r
C19_Acc(env, r, nm) ==
    IF nm \in env.arithmetic_actions
    THEN clip_by_value(arithmetic_actions_dict(nm, r.acc, Float(r.digit)),
                       Float(-AccClip), Float(AccClip))
    ELSE {r.acc}

\* a build_step of GridArithmetic has been made
C19_Stepped == grid_t > 0 /\ grid_env.variant = "GridArithmetic"

\* C19: after a build_step of GridArithmetic whose action has exactly one
\* component at 1.0 and the others at 0.0, every register is what that
\* single action gives from the previous registers (the hot arithmetic
\* action gives acc = clip(op(acc, digit))), and with no arithmetic action
\* hot acc is left unchanged.
C19_OneHotConsistent ==
    /\ (C19_Stepped /\ Cardinality(HotNames(grid_a)) = 1) =>
        LET nm == CHOOSE h \in HotNames(grid_a) : TRUE
            want == C19_Effect(grid_env, input_ph, grid_prev, nm)
        IN /\ \A f \in DOMAIN want : grid_r[f] = want[f]
           /\ grid_r.acc \in C19_Acc(grid_env, grid_prev, nm)
    /\ (C19_Stepped /\ HotNames(grid_a) \cap grid_env.arithmetic_actions = {})
        => grid_r.acc = grid_prev.acc

(***************************************************************************)
(* C20                                                                     *)
(***************************************************************************)
\* -1000 <= x <= 1000
C20_InRange(x) ==
    /\ x.k = "fin"
    /\ ~FLess(x, Float(-AccClip))
    /\ ~FLess(Float(AccClip), x)

\* the last build_step applied the multiply action alone, with a digit
\* greater than 1
C20_Multiplied == grid_t > 0 /\ HotNames(grid_a) = {"*"} /\ grid_r.digit > 1

\* C20: after every build_step of GridArithmetic, GridArithmeticEasy and
\* OmniglotCounting the acc register lies in [-1000, 1000], whatever the
\* previous registers and the action, and a multiply action with a digit
\* greater than 1 multiplies acc up to the clip bound and never beyond it.
C20_AccClipped ==
    /\ grid_t > 0 => C20_InRange(grid_r.acc)
    /\ C20_Multiplied =>
        grid_r.acc \in clip_by_value(FMul(grid_prev.acc, Float(grid_r.digit)),
                                     Float(-AccClip), Float(AccClip))

(***************************************************************************)
(* C21                                                                     *)
(***************************************************************************)
\* one of the three strategies finds the register nm in the bank
C21_Found(bank, nm) ==
    \/ bank.type = "namedtuple" /\ InSeq(nm, bank.has)
    \/ bank.type = "dict" /\ InSeq(nm, bank.has)
    \/ /\ bank.type # "dict"
       /\ \E i \in DOMAIN SpecNames : SpecNames[i] = nm /\ i <= Len(bank.has)

\* the names the call looks up
C21_Asked == IF lk_names = << >> THEN SpecNames ELSE lk_names

\* the first name of the call that no strategy finds
C21_FirstMissing ==
    LET miss == {i \in DOMAIN C21_Asked : ~C21_Found(lk_registers, C21_Asked[i])}
    IN C21_Asked[CHOOSE i \in miss : \A j \in miss : i <= j]

\* C21: when a requested register is found neither as an attribute, nor as
\* a key, nor by its position, get_register_values raises the descriptive
\* lookup failure that names the bank searched and the missing key, and no
\* other exception.
C21_DescriptiveLookup ==
    (lk_pc = "done"
     /\ \E i \in DOMAIN C21_Asked : ~C21_Found(lk_registers, C21_Asked[i]))
    => /\ lk_result.raised = "Exception"
       /\ lk_result.value = <<LookupMessage(lk_registers, C21_FirstMissing)>>

(***************************************************************************)
(* C22                                                                     *)
(***************************************************************************)
\* _sample_patch_locations has made at most max_attempts + 1 attempts, and
\* when it gives up its error reports n_rects, draw_shape and max_overlap
C22_Bounded ==
    /\ p_i <= pb.max_attempts + 1
    /\ (p_pc = "failed" /\ p_error.type # "ValueError") =>
        p_error = CouldNotFit(n_rects, pb)

\* the placing of the patches of the image has ended
C22_Ended == p_pc \in {"done", "failed"}

\* C22: placing the patches never retries indefinitely:
\* _sample_patch_locations makes a bounded number of attempts and then
\* raises an error reporting n_rects, draw_shape and max_overlap, and every
\* retry loop of the placing, the one of _sample_distractors included,
\* terminates.
C22_NeverRetriesIndefinitely == [](C22_Bounded) /\ <>(C22_Ended)

(***************************************************************************)
(* C23                                                                     *)
(***************************************************************************)
\* the smallest of the losses passed so far
C23_Min == CHOOSE m \in {losses[i] : i \in DOMAIN losses} :
               \A i \in DOMAIN losses : m <= losses[i]

\* the 0-based index of the first check that was passed the smallest loss
C23_FirstMin == (CHOOSE i \in DOMAIN losses :
                    /\ losses[i] = C23_Min
                    /\ \A j \in 1..(i - 1) : losses[j] # C23_Min) - 1

\* C23: after any sequence of check(loss) calls best_value is the smallest
\* loss passed so far and best_step the index of the first call that was
\* passed it, and the last check returned new_best exactly when its loss was
\* strictly smaller than every earlier loss.
C23_BestIsMinimum ==
    losses # << >> =>
        /\ es.best_value = C23_Min
        /\ es.best_step = C23_FirstMin
        /\ es.step = Len(losses)
        /\ new_best = (\A j \in 1..(Len(losses) - 1) :
                           losses[Len(losses)] < losses[j])

\* a later check repeated the smallest loss and a larger one came before
\* the smallest
C23_Witness ==
    /\ Len(losses) >= 3
    /\ C23_FirstMin > 0
    /\ \E j \in DOMAIN losses : j > C23_FirstMin + 1 /\ losses[j] = C23_Min

(***************************************************************************)
(* C24                                                                     *)
(***************************************************************************)
\* the checks made after the one that set the current best, the last check
\* included
C24_SinceBest == (Len(losses) - 1) - es.best_step

\* C24: check returns stop exactly when more than `patience` checks have
\* been made since the check that set the current best; a check that sets a
\* new best does not return stop; and early_stopped, once set, stays set.
C24_StopAfterPatience ==
    /\ [](losses # << >> =>
            /\ stop = (C24_SinceBest > patience)
            /\ new_best => ~stop
            /\ stop => es.early_stopped)
    /\ [][es.early_stopped => es'.early_stopped]_vars

\* a check returned stop with a patience above zero, and a later check did
\* not
C24_Witness ==
    /\ patience > 0
    /\ es.early_stopped
    /\ ~stop
    /\ losses # << >>

(***************************************************************************)
(* C25: every curriculum stage terminates.  Within a stage the number of  *)
(* update steps never exceeds the number that takes n_experiences to      *)
(* max_epochs * n_train, whatever the losses are; every stage is left     *)
(* again, and the stage loop of _run_core comes to an end.                *)
(***************************************************************************)
MaxStepsReason == "Maximum number of steps reached."
StepBound == CeilDiv(max_epochs * NTrain, BatchSize)
C25_StepsBounded == tpc \in StagePcs => local_step <= StepBound
C25_StageLeft == tpc \notin StagePcs
C25_RunEnded == tpc \in {"returned", "crashed"}
C25_EveryStageTerminates ==
    [](C25_StepsBounded) /\ []<>(C25_StageLeft) /\ <>(C25_RunEnded)
\* the run has returned after every stage of the curriculum ran to its
\* maximum number of steps
C25_Witness ==
    /\ tpc = "returned"
    /\ Len(ended) = NStages
    /\ \A i \in 1..Len(ended) :
          ended[i].reason = MaxStepsReason /\ ended[i].steps = StepBound

(***************************************************************************)
(* C26: whenever a stage has finished and updater.restore(self.best_path) *)
(* is about to run, best_path is set and names a checkpoint that was      *)
(* saved during that same stage.                                          *)
(***************************************************************************)
C26_SameStage ==
    /\ best_path # << >>
    /\ best_path \in DOMAIN disk
    /\ disk[best_path].stage = stage
C26_BestPathOfStage == tpc = "restore" => C26_SameStage
\* the same for the stages whose _run_stage returned after an evaluation
C26_AfterAnEvaluation ==
    (tpc = "restore" /\ ended[Len(ended)].how = "returned"
        /\ ended[Len(ended)].checks > 0) => C26_SameStage

(***************************************************************************)
(* C27: the active-context slot after build_graph, update or evaluate.    *)
(* As stated: once one of them has returned or has exited with an         *)
(* exception, no RLContext is active.                                     *)
(***************************************************************************)
Operations == {"build_graph", "update", "evaluate"}
C27_Leaves == (upc # "idle" /\ upc' = "idle") => active_context' = None
C27_Rejected ==
    (upc = "idle" /\ upc' = "idle" /\ last_op'.op \in Operations)
        => active_context' = active_context
C28_Injective == (kpc = "done" /\ kk1 = kk2) => Asked(kq1) = Asked(kq2)
\* requests that differ only in the order of their keyword arguments share
\* a key
C28_OrderInsensitive == (kpc = "done" /\ Asked(kq1) = Asked(kq2)) => kk1 = kk2
\* no generated key is the name of a core signal
C28_NotACoreName == kpc = "done" => kk1 \notin CoreSignals /\ kk2 \notin CoreSignals
\* plain signal keys and integer values: the key tells the requests apart
IsPlain(r) ==
    /\ r.key \in SignalKeys
    /\ \A i \in DOMAIN r.kwargs : r.kwargs[i][2].type = "int"
C28_InjectiveOnPlain ==
    (kpc = "done" /\ IsPlain(kq1) /\ IsPlain(kq2) /\ kk1 = kk2)
        => Asked(kq1) = Asked(kq2)

(***************************************************************************)
(* C29: _evaluate makes ceil(n_val_rollouts / batch_size) batches, each   *)
(* of size 1..batch_size, whose sizes sum to n_val_rollouts; every        *)
(* learner's evaluate is called once per batch; and the value returned    *)
(* for a key is the sum of size * value over the batches divided by       *)
(* n_val_rollouts.                                                        *)
(***************************************************************************)
CallsOf(k) == SelectSeq(ev_calls, LAMBDA c : c.learner = k)
RECURSIVE SumSizes(_)
SumSizes(cs) == IF cs = << >> THEN 0 ELSE cs[1].batch_size + SumSizes(Tail(cs))
RECURSIVE WeightedSum(_)
WeightedSum(cs) ==
    IF cs = << >> THEN 0 ELSE cs[1].batch_size * cs[1].value + WeightedSum(Tail(cs))
C29_WeightedMean ==
    ev_pc = "done" =>
        \A k \in 1..ev_cfg.nl :
            LET cs == CallsOf(k)
            IN  /\ Len(cs) = CeilDiv(ev_cfg.n, ev_cfg.bs)
                /\ \A j \in DOMAIN cs :
                      cs[j].it = j - 1 /\ cs[j].batch_size \in 1..ev_cfg.bs
                /\ SumSizes(cs) = ev_cfg.n
                /\ (ev_cfg.n > 0) =>
                      /\ k \in DOMAIN ev_result
                      /\ ev_result[k] = [num |-> WeightedSum(cs), den |-> ev_cfg.n]
\* two learners, a last batch smaller than the others, and values that
\* differ between the batches
C29_Witness ==
    /\ ev_pc = "done"
    /\ ev_cfg.nl = 2 /\ ev_cfg.bs = 2 /\ ev_cfg.n = 3
    /\ CallsOf(1)[1].value # CallsOf(1)[2].value
    /\ ev_result[1].num = 2

(***************************************************************************)
(* C30: an RLObject comes into existence only inside an active context:   *)
(* instantiating one while no context is active raises "No context is     *)
(* currently active." and yields no object, and every object that exists  *)
(* is in the rl_objects of exactly one context, once.                     *)
(***************************************************************************)
\* the places (context, position) at which rl_objects holds the object o
Holders(o) ==
    {h \in Contexts \X (1..MaxObjects) :
        h[2] \in DOMAIN rl_objects[h[1]] /\ rl_objects[h[1]][h[2]] = o}
C30_InOneContext ==
    \A i \in DOMAIN created : Cardinality(Holders(created[i].obj)) = 1
C30_RaisesOutside ==
    (upc = "idle" /\ active_context = None /\ last_op'.op = "new")
        => /\ last_op'.result = "Exception"
           /\ last_op'.names = NoContextMessage
           /\ created' = created
           /\ rl_objects' = rl_objects
C30_OnlyInsideContext == [](C30_InOneContext) /\ [][C30_RaisesOutside]_vars
\* an instantiation outside any context has just raised, after objects were
\* made in both contexts
C30_Witness ==
    /\ last_op.op = "new" /\ last_op.result = "Exception"
    /\ active_context = None
    /\ Len(rl_objects["A"]) >= 1 /\ Len(rl_objects["B"]) >= 1



















====
